---------------------------- MODULE Spec2Model ----------------------------
(***************************************************************************)
(* GitSnapFs: a read-only FUSE view of a Git object database.              *)
(*                                                                         *)
(* The model follows src/src/fs.rs (the FileSystem handlers and the        *)
(* materialized-node cache), src/src/repo.rs (the repository facade) and   *)
(* src/src/inode.rs.  Byte strings (names, link targets, blob contents)    *)
(* are sequences of one-character strings, object ids are sequences of 20  *)
(* bytes and a u64 inode number is its 8 big-endian bytes, so that the     *)
(* hex formatting, the hex-prefix resolution and the bit layout of inode   *)
(* numbers are computed and not assumed.                                   *)
(***************************************************************************)
EXTENDS Integers, Sequences, FiniteSets, TLC

VARIABLES
    nodes,   \* GitSnapFs.nodes : HashMap<u64, Node>  (fs.rs:92)
    head,    \* the repository's HEAD: a commit id, or Unborn
    last,    \* the request handled last and its reply
    rd,      \* a client walking one directory with chained readdir offsets
    inner,   \* InodeTable.inner : HashMap<u64, InodeEntry>  (inode.rs:95)
    snap,    \* the map a caller of InodeTable::snapshot holds
    thr,     \* lookups in progress on concurrent threads, each at its step
    repo     \* the refs of the repository behind GitSnapFs.repo  (fs.rs:90)

vars == <<nodes, head, last, rd, inner, snap, thr, repo>>

\* ------------------------------------------------------------------------
\* Bounds of the model (not program constants)
\* ------------------------------------------------------------------------
MaxOffset  == 3     \* readdir is asked for offsets 0..MaxOffset
MaxCap     == 1     \* entries a limited reply buffer takes: 0..MaxCap
MaxSize    == 4     \* read sizes 0..MaxSize
MaxReadOff == 4     \* read offsets 0..MaxReadOff

\* ------------------------------------------------------------------------
\* Bytes, hex and u64
\* ------------------------------------------------------------------------
HexChars == <<"0","1","2","3","4","5","6","7","8","9","a","b","c","d","e","f">>

IsHexChar(c) == \E i \in 1..16 : HexChars[i] = c

HexVal(c) == (CHOOSE i \in 1..16 : HexChars[i] = c) - 1

\* ObjectId's Display: two lower-case hex digits per byte.
ToHex(bytes) ==
    [i \in 1..(2 * Len(bytes)) |->
        LET b == bytes[(i + 1) \div 2]
        IN  IF i % 2 = 1 THEN HexChars[(b \div 16) + 1] ELSE HexChars[(b % 16) + 1]]

IsPrefix(p, s) == Len(p) <= Len(s) /\ \A i \in 1..Len(p) : p[i] = s[i]

\* u64 from an integer that fits one byte (the reserved inode numbers).
U64(n) == <<0, 0, 0, 0, 0, 0, 0, n>>

\* A byte of the input that is not valid UTF-8 on its own.
InvalidByte == "\\xff"

from_utf8_ok(name) == \A i \in 1..Len(name) : name[i] # InvalidByte

\* U+FFFD REPLACEMENT CHARACTER in UTF-8
REPLACEMENT_CHARACTER == <<"\\xef", "\\xbf", "\\xbd">>

\* String::from_utf8_lossy: every invalid byte becomes U+FFFD
RECURSIVE from_utf8_lossy(_)
from_utf8_lossy(s) ==
    IF s = <<>> THEN <<>>
    ELSE (IF s[1] = InvalidByte THEN REPLACEMENT_CHARACTER ELSE <<s[1]>>)
         \o from_utf8_lossy(Tail(s))

\* ------------------------------------------------------------------------
\* Constants of fs.rs
\* ------------------------------------------------------------------------
S_IFDIR == 16384
S_IFREG == 32768
S_IFLNK == 40960

PERM_DIR     == 493     \* 0o755
PERM_LINK    == 511     \* 0o777
PERM_FILE    == 292     \* 0o444
PERM_EXEC    == 365     \* 0o555

ROOT_ATTR_MODE      == S_IFDIR + PERM_DIR
DIRECTORY_ATTR_MODE == S_IFDIR + PERM_DIR
SYMLINK_ATTR_MODE   == S_IFLNK + PERM_LINK

ROOT_ID        == U64(1)
INODE_COMMITS  == U64(2)
INODE_BRANCHES == U64(3)
INODE_TAGS     == U64(4)
INODE_HEAD     == U64(5)

NAMESPACE_BRANCH == 1
NAMESPACE_TAG    == 2

NAME_DOT      == <<".">>
NAME_DOT_DOT  == <<".", ".">>
NAME_COMMITS  == <<"c","o","m","m","i","t","s">>
NAME_BRANCHES == <<"b","r","a","n","c","h","e","s">>
NAME_TAGS     == <<"t","a","g","s">>
NAME_HEAD     == <<"H","E","A","D">>

DT_DIR == "DT_DIR"
DT_REG == "DT_REG"
DT_LNK == "DT_LNK"

\* "../commits/" of format!("../commits/{}", meta.id)
COMMITS_PREFIX == <<".", ".", "/">> \o NAME_COMMITS \o <<"/">>


\* ------------------------------------------------------------------------
\* The repository (an object database and its refs), read through repo.rs
\* ------------------------------------------------------------------------
OidFill == [i \in 1..16 |-> 119]

\* A 20-byte object id: three leading bytes, a filler, one trailing byte.
MkOid(a, b, c, z) == <<a, b, c>> \o OidFill \o <<z>>

OID_C1 == MkOid(171, 205, 1, 17)    \* abcd01...
OID_C2 == MkOid(171, 205, 2, 18)    \* abcd02...
OID_T1 == MkOid(28, 1, 0, 33)       \* 1c0100...
OID_T2 == MkOid(28, 2, 0, 34)
OID_T3 == MkOid(28, 3, 0, 35)
OID_B0 == MkOid(11, 0, 0, 48)       \* the empty blob
OID_B1 == MkOid(11, 1, 0, 49)
OID_B2 == MkOid(11, 2, 0, 50)
OID_S1 == MkOid(222, 173, 0, 65)    \* a gitlink target, absent from the database

Unborn == <<>>

\* Tree entry modes (gix EntryKind)
EK_Tree == "Tree"
EK_Blob == "Blob"
EK_BlobExecutable == "BlobExecutable"
EK_Link == "Link"
EK_Commit == "Commit"

TreeEntry(n, m, o) == [filename |-> n, mode |-> m, oid |-> o]

ObjectIds == {OID_C1, OID_C2, OID_T1, OID_T2, OID_T3, OID_B0, OID_B1, OID_B2}

\* The object database.  Tree entries are in Git's own (name) order.
Object(oid) ==
    CASE oid = OID_C1 -> [type |-> "commit", tree |-> OID_T1, committer_seconds |-> 100]
      [] oid = OID_C2 -> [type |-> "commit", tree |-> OID_T2, committer_seconds |-> 200]
      [] oid = OID_T1 -> [type |-> "tree", entries |->
                            << TreeEntry(<<"a">>, EK_Blob, OID_B1),
                               TreeEntry(<<"d">>, EK_Tree, OID_T3),
                               TreeEntry(<<"l">>, EK_Link, OID_B2),
                               TreeEntry(<<"m">>, EK_Commit, OID_C2),
                               TreeEntry(<<"s">>, EK_Commit, OID_S1),
                               TreeEntry(<<"x">>, EK_BlobExecutable, OID_B1) >>]
      [] oid = OID_T2 -> [type |-> "tree", entries |->
                            << TreeEntry(<<"d">>, EK_Tree, OID_T3),
                               TreeEntry(<<"e">>, EK_Blob, OID_B0) >>]
      [] oid = OID_T3 -> [type |-> "tree", entries |->
                            << TreeEntry(<<"f">>, EK_Blob, OID_B2) >>]
      [] oid = OID_B0 -> [type |-> "blob", data |-> <<>>]
      [] oid = OID_B1 -> [type |-> "blob", data |-> <<"h", "i", "\n">>]
      [] oid = OID_B2 -> [type |-> "blob", data |-> <<"a">>]
      [] OTHER -> [type |-> "missing"]

\* refs/heads/* and refs/tags/* as the reference store iterates them.
RefsHeads == << <<"refs/heads/", <<"m","a","i","n">>, OID_C1>>,
                <<"refs/heads/", <<"d","e","v">>, OID_C2>> >>
RefsTags  == << <<"refs/tags/", <<"v","1">>, OID_C1>> >>

\* Byte order of the characters that occur in names.
Alphabet == <<"\n", ".", "/", "0","1","2","3","4","5","6","7","8","9",
              "A","C","D","E","H",
              "a","b","c","d","e","f","g","h","i","l","m","n","o","r","s","t","v","x","z",
              "\\xbd", "\\xbf", "\\xef", InvalidByte>>

Code(c) == CHOOSE i \in 1..Len(Alphabet) : Alphabet[i] = c

\* a.cmp(b) = Less, for byte strings
RECURSIVE StrLess(_, _)
StrLess(a, b) ==
    IF b = <<>> THEN FALSE
    ELSE IF a = <<>> THEN TRUE
    ELSE IF Code(a[1]) # Code(b[1]) THEN Code(a[1]) < Code(b[1])
    ELSE StrLess(Tail(a), Tail(b))

\* refs.sort_by(|a, b| a.0.cmp(&b.0)): a stable insertion into sorted order
RECURSIVE InsertSorted(_, _)
InsertSorted(r, sorted) ==
    IF sorted = <<>> THEN <<r>>
    ELSE IF StrLess(r[1], sorted[1][1]) THEN <<r>> \o sorted
    ELSE <<sorted[1]>> \o InsertSorted(r, Tail(sorted))

RECURSIVE SortRefs(_)
SortRefs(refs) ==
    IF refs = <<>> THEN <<>>
    ELSE InsertSorted(refs[Len(refs)], SortRefs(SubSeq(refs, 1, Len(refs) - 1)))

\* collect_refs: strip the prefix, pair the short name with the peeled id, sort.
collect_refs(store) ==
    SortRefs([i \in 1..Len(store) |-> <<from_utf8_lossy(store[i][2]), store[i][3]>>])

\* The refs as the repository holds them when the filesystem is mounted.
Stores == [heads |-> RefsHeads, tags |-> RefsTags]

list_branches == collect_refs(RefsHeads)
list_tags     == collect_refs(RefsTags)

\* repo.find_commit / find_tree / find_blob
find_commit_ok(oid) == Object(oid).type = "commit"
find_tree_ok(oid)   == Object(oid).type = "tree"
find_blob_ok(oid)   == Object(oid).type = "blob"

\* Objects whose hex id starts with the given hex string.
PrefixMatches(hex) == {o \in ObjectIds : IsPrefix(hex, ToHex(o))}

IsHexString(s) == s # <<>> /\ \A i \in 1..Len(s) : IsHexChar(s[i])

\* rev_parse_single: a hex string names the one object it is a prefix of; any
\* other text is tried as a revision name (HEAD, a branch, a tag).
\* Result: [ok, id, why]; `why` tells the failures apart for the properties
\* only: the caller sees one opaque error for all of them.
rev_parse_single(h, spec) ==
    IF IsHexString(spec)
    THEN LET m == PrefixMatches(spec)
         IN  IF Cardinality(m) = 1
             THEN [ok |-> TRUE, id |-> CHOOSE o \in m : TRUE, why |-> "unique"]
             ELSE [ok |-> FALSE, id |-> Unborn,
                   why |-> IF m = {} THEN "notfound" ELSE "ambiguous"]
    ELSE IF spec = NAME_HEAD /\ h # Unborn
    THEN [ok |-> TRUE, id |-> h, why |-> "ref"]
    ELSE LET all == list_branches \o list_tags
             hit == {i \in 1..Len(all) : all[i][1] = spec}
         IN  IF hit # {}
             THEN [ok |-> TRUE, id |-> all[CHOOSE i \in hit : \A j \in hit : i <= j][2],
                   why |-> "ref"]
             ELSE [ok |-> FALSE, id |-> Unborn, why |-> "notfound"]

\* Repository::resolve_full_commit_id
resolve_full_commit_id(h, hex) ==
    LET r == rev_parse_single(h, hex)
    IN  IF r.ok /\ find_commit_ok(r.id)
        THEN [ok |-> TRUE, id |-> r.id, why |-> r.why]
        ELSE [ok |-> FALSE, id |-> Unborn,
              why |-> IF r.ok THEN "wrongkind" ELSE r.why]

\* Repository::resolve_head
resolve_head(h) ==
    IF h # Unborn /\ find_commit_ok(h)
    THEN [ok |-> TRUE, id |-> h]
    ELSE [ok |-> FALSE, id |-> Unborn]


\* ------------------------------------------------------------------------
\* Inode numbers
\* ------------------------------------------------------------------------
\* crate::inode::inode_from_oid, called with the object id alone (fs.rs:172,
\* fs.rs:407): the leading eight bytes of the id, big-endian, with the top
\* four bits cleared.  There is no kind at the call sites to tag it with.
inode_from_oid(oid) == <<oid[1] % 16>> \o SubSeq(oid, 2, 8)

\* DefaultHasher over (namespace, name): a fixed 64-bit hash.
hash64(namespace, name) ==
    LET n  == Len(name)
        c1 == IF n >= 1 THEN Code(name[1]) ELSE 0
        c2 == IF n >= 2 THEN Code(name[2]) ELSE 0
        cn == IF n >= 1 THEN Code(name[n]) ELSE 0
    IN  <<158, (namespace * 31 + n) % 256, 55, 121, c1, c2, cn, (c1 + 3 * c2 + 7 * cn + n) % 256>>

\* (u64::from(namespace) << 56) | (hash & 0x00FF_FFFF_FFFF_FFFF)
synthetic_inode(namespace, name) ==
    <<namespace>> \o SubSeq(hash64(namespace, name), 2, 8)

\* ------------------------------------------------------------------------
\* Times and attributes
\* ------------------------------------------------------------------------
\* A SystemTime as its signed distance from the epoch.
SysTime(neg, secs, nanos) == [neg |-> neg, secs |-> secs, nanos |-> nanos]

\* GitSnapFs.start_time = SystemTime::now() at construction
start_time == SysTime(FALSE, 1000, 7)

seconds_to_system_time(seconds) ==
    IF seconds >= 0 THEN SysTime(FALSE, seconds, 0) ELSE SysTime(TRUE, -seconds, 0)

\* the commit's committer time (every commit of the database has a readable one)
commit_time_to_system(commit, default) ==
    seconds_to_system_time(commit.committer_seconds)

time_to_unix_parts(time) ==
    IF time.neg /\ (time.secs # 0 \/ time.nanos # 0)
    THEN <<-time.secs, time.nanos>>
    ELSE <<time.secs, time.nanos>>

MkAttr(inode, mode, nlink, size, time) ==
    LET p == time_to_unix_parts(time)
    IN  [st_ino |-> inode, st_mode |-> mode, st_nlink |-> nlink,
         st_uid |-> 0, st_gid |-> 0, st_blksize |-> 4096, st_blocks |-> 0,
         st_size |-> size,
         st_atime |-> p[1], st_atime_nsec |-> p[2],
         st_mtime |-> p[1], st_mtime_nsec |-> p[2],
         st_ctime |-> p[1], st_ctime_nsec |-> p[2]]

build_dir_attr(inode, mode, time) == MkAttr(inode, mode, 2, 0, time)

\* Variant: the size field is left at zero.
build_file_attr_sizeless(inode, mode, size, time) == MkAttr(inode, mode, 1, 0, time)

build_file_attr(inode, mode, size, time) == MkAttr(inode, mode, 1, size, time)

build_symlink_attr(inode, mode, time, size) == MkAttr(inode, mode, 1, size, time)

root_attr == build_dir_attr(ROOT_ID, ROOT_ATTR_MODE, start_time)

\* Entry { inode, generation: 0, attr, attr_flags: 0, timeouts }
make_entry(inode, attr) == [inode |-> inode, generation |-> 0, attr |-> attr]

special_dir_entry(inode) ==
    make_entry(inode, build_dir_attr(inode, DIRECTORY_ATTR_MODE, start_time))

NoEntry == [inode |-> <<>>]

\* ------------------------------------------------------------------------
\* Nodes
\* ------------------------------------------------------------------------
CommitMeta(id, tree, time) == [id |-> id, tree |-> tree, time |-> time]

NK_Commit(meta)     == [k |-> "Commit", meta |-> meta]
NK_Tree(meta, tree) == [k |-> "Tree", meta |-> meta, tree |-> tree]
NK_Blob(meta, oid, executable, size) ==
    [k |-> "Blob", meta |-> meta, oid |-> oid, executable |-> executable, size |-> size]
NK_Symlink(meta, target)   == [k |-> "Symlink", meta |-> meta, target |-> target]
NK_Submodule(meta, oid)    == [k |-> "Submodule", meta |-> meta, oid |-> oid]
NK_SyntheticSymlink(target, time) ==
    [k |-> "SyntheticSymlink", target |-> target, time |-> time]

Node(inode, parent, kind) == [inode |-> inode, parent |-> parent, kind |-> kind]

\* Variant: an insert that leaves the value of a key the map already has.
insert_if_absent(map, key, value) ==
    [i \in DOMAIN map \cup {key} |-> IF i \in DOMAIN map THEN map[i] ELSE value]

\* HashMap::insert
Insert(map, key, value) ==
    [i \in DOMAIN map \cup {key} |-> IF i = key THEN value ELSE map[i]]

\* Replies: errors carry the errno the handler built, or "Other" for an
\* io::Error::other(..) that wraps a library error and has no errno.
OK == "OK"

\* The errno the FUSE reply carries: an error without one is sent as EIO.
Errno(err) == IF err = "Other" THEN "EIO" ELSE err

attr_for_node(node) ==
    LET kd == node.kind
    IN  CASE kd.k \in {"Commit", "Tree", "Submodule"} ->
                build_dir_attr(node.inode, DIRECTORY_ATTR_MODE, kd.meta.time)
          [] kd.k = "Blob" ->
                build_file_attr(node.inode,
                                IF kd.executable THEN S_IFREG + PERM_EXEC
                                                 ELSE S_IFREG + PERM_FILE,
                                kd.size, kd.meta.time)
          [] kd.k = "Symlink" ->
                build_symlink_attr(node.inode, SYMLINK_ATTR_MODE, kd.meta.time,
                                   Len(kd.target))
          [] kd.k = "SyntheticSymlink" ->
                build_symlink_attr(node.inode, SYMLINK_ATTR_MODE, kd.time,
                                   Len(kd.target))

\* ensure_commit_node: [err, meta, inode, nodes]
\* Variant: the commit is resolved but its node is never cached.
ensure_commit_node_uncached(ns, commit_id) ==
    LET inode == inode_from_oid(commit_id)
    IN  IF ~find_commit_ok(commit_id)
        THEN [err |-> "Other", meta |-> <<>>, inode |-> inode, nodes |-> ns]
        ELSE LET commit == Object(commit_id)
                 meta   == CommitMeta(commit_id, commit.tree,
                                      commit_time_to_system(commit, start_time))
             IN  [err |-> OK, meta |-> meta, inode |-> inode, nodes |-> ns]

ensure_commit_node(ns, commit_id) ==
    LET inode == inode_from_oid(commit_id)
    IN  IF inode \in DOMAIN ns /\ ns[inode].kind.k = "Commit"
        THEN [err |-> OK, meta |-> ns[inode].kind.meta, inode |-> inode, nodes |-> ns]
        ELSE IF ~find_commit_ok(commit_id)
        THEN [err |-> "Other", meta |-> <<>>, inode |-> inode, nodes |-> ns]
        ELSE LET commit == Object(commit_id)
                 meta   == CommitMeta(commit_id, commit.tree,
                                      commit_time_to_system(commit, start_time))
             IN  [err |-> OK, meta |-> meta, inode |-> inode,
                  nodes |-> Insert(ns, inode,
                                   Node(inode, INODE_COMMITS, NK_Commit(meta)))]

\* node_for_inode: [err, node]
node_for_inode(ns, inode) ==
    IF inode \in DOMAIN ns THEN [err |-> OK, node |-> ns[inode]]
                           ELSE [err |-> "ENOENT", node |-> <<>>]

\* format!("../commits/{}", meta.id).into_bytes()
\* Variant: the target carries the abbreviated (seven digit) id.
ref_target_short(meta) == COMMITS_PREFIX \o SubSeq(ToHex(meta.id), 1, 7)

ref_target(meta) == COMMITS_PREFIX \o ToHex(meta.id)

\* head_metadata: [err, meta, target, nodes]
head_metadata(ns, h) ==
    LET r == resolve_head(h)
    IN  IF ~r.ok THEN [err |-> "Other", meta |-> <<>>, target |-> <<>>, nodes |-> ns]
        ELSE LET e == ensure_commit_node(ns, r.id)
             IN  IF e.err # OK
                 THEN [err |-> e.err, meta |-> <<>>, target |-> <<>>, nodes |-> e.nodes]
                 ELSE [err |-> OK, meta |-> e.meta,
                       target |-> ref_target(e.meta), nodes |-> e.nodes]

\* Handler replies for lookup: [err, entry, nodes]
Fail(err, ns) == [err |-> err, entry |-> NoEntry, nodes |-> ns]

head_entry(ns, h) ==
    LET m == head_metadata(ns, h)
    IN  IF m.err # OK THEN Fail(m.err, m.nodes)
        ELSE [err |-> OK,
              entry |-> make_entry(INODE_HEAD,
                            build_symlink_attr(INODE_HEAD, SYMLINK_ATTR_MODE,
                                               m.meta.time, Len(m.target))),
              nodes |-> m.nodes]

lookup_commit(ns, h, name) ==
    IF ~from_utf8_ok(name) THEN Fail("ENOENT", ns)
    ELSE LET r == resolve_full_commit_id(h, name)
         IN  IF ~r.ok THEN Fail("Other", ns)
             ELSE LET e == ensure_commit_node(ns, r.id)
                  IN  IF e.err # OK THEN Fail(e.err, e.nodes)
                      ELSE [err |-> OK,
                            entry |-> make_entry(e.inode,
                                         build_dir_attr(e.inode, DIRECTORY_ATTR_MODE,
                                                        e.meta.time)),
                            nodes |-> e.nodes]

lookup_reference_symlink(ns, name, namespace, refs, parent) ==
    IF ~from_utf8_ok(name) THEN Fail("ENOENT", ns)
    ELSE LET hit == {i \in 1..Len(refs) : refs[i][1] = name}
         IN  IF hit = {} THEN Fail("ENOENT", ns)
             ELSE LET commit_id == refs[CHOOSE i \in hit : \A j \in hit : i <= j][2]
                      e == ensure_commit_node(ns, commit_id)
                  IN  IF e.err # OK THEN Fail(e.err, e.nodes)
                      ELSE LET target == ref_target(e.meta)
                               inode  == synthetic_inode(namespace, name)
                               node   == Node(inode, parent,
                                              NK_SyntheticSymlink(target, e.meta.time))
                           IN  [err |-> OK,
                                entry |-> make_entry(inode,
                                             build_symlink_attr(inode, SYMLINK_ATTR_MODE,
                                                                e.meta.time, Len(target))),
                                nodes |-> Insert(e.nodes, inode, node)]


\* tree.iter() scanned for a byte-exact filename: the first match, or 0
FindEntry(entries, name) ==
    LET hit == {i \in 1..Len(entries) : entries[i].filename = name}
    IN  IF hit = {} THEN 0 ELSE CHOOSE i \in hit : \A j \in hit : i <= j

\* materialize_tree_child: [err, node, attr, nodes]
ChildFail(err, ns) == [err |-> err, node |-> <<>>, attr |-> <<>>, nodes |-> ns]

materialize_tree_child(ns, parent, name) ==
    IF parent.kind.k \notin {"Commit", "Tree"} THEN ChildFail("ENOTDIR", ns)
    ELSE
    LET meta    == parent.kind.meta
        tree_id == IF parent.kind.k = "Commit" THEN meta.tree ELSE parent.kind.tree
    IN  IF ~find_tree_ok(tree_id) THEN ChildFail("Other", ns)
        ELSE
        LET entries == Object(tree_id).entries
            at      == FindEntry(entries, name)
        IN  IF at = 0 THEN ChildFail("ENOENT", ns)
            ELSE
            LET mode        == entries[at].mode
                child_oid   == entries[at].oid
                child_inode == inode_from_oid(child_oid)
            IN  IF child_inode \in DOMAIN ns
                THEN [err |-> OK, node |-> ns[child_inode],
                      attr |-> attr_for_node(ns[child_inode]), nodes |-> ns]
                ELSE
                CASE mode = EK_Tree ->
                        LET node == Node(child_inode, parent.inode, NK_Tree(meta, child_oid))
                        IN  [err |-> OK, node |-> node,
                             attr |-> build_dir_attr(child_inode, DIRECTORY_ATTR_MODE, meta.time),
                             nodes |-> Insert(ns, child_inode, node)]
                  [] mode \in {EK_Blob, EK_BlobExecutable} ->
                        IF ~find_blob_ok(child_oid) THEN ChildFail("Other", ns)
                        ELSE
                        LET executable == (mode = EK_BlobExecutable)
                            file_mode  == IF executable THEN S_IFREG + PERM_EXEC
                                                        ELSE S_IFREG + PERM_FILE
                            size       == Len(Object(child_oid).data)
                            node == Node(child_inode, parent.inode,
                                         NK_Blob(meta, child_oid, executable, size))
                        IN  [err |-> OK, node |-> node,
                             attr |-> build_file_attr(child_inode, file_mode, size, meta.time),
                             nodes |-> Insert(ns, child_inode, node)]
                  [] mode = EK_Link ->
                        IF ~find_blob_ok(child_oid) THEN ChildFail("Other", ns)
                        ELSE
                        LET target == Object(child_oid).data
                            node == Node(child_inode, parent.inode, NK_Symlink(meta, target))
                        IN  [err |-> OK, node |-> node,
                             attr |-> build_symlink_attr(child_inode, SYMLINK_ATTR_MODE,
                                                         meta.time, Len(target)),
                             nodes |-> Insert(ns, child_inode, node)]
                  [] mode = EK_Commit ->
                        LET node == Node(child_inode, parent.inode,
                                         NK_Submodule(meta, child_oid))
                        IN  [err |-> OK, node |-> node,
                             attr |-> build_dir_attr(child_inode, DIRECTORY_ATTR_MODE, meta.time),
                             nodes |-> Insert(ns, child_inode, node)]

\* the `match name` of lookup under the root
\* Variant: HEAD is matched without regard to case.
lookup_root_nocase(ns, h, name) ==
    CASE name = NAME_COMMITS  -> [err |-> OK, entry |-> special_dir_entry(INODE_COMMITS), nodes |-> ns]
      [] name = NAME_BRANCHES -> [err |-> OK, entry |-> special_dir_entry(INODE_BRANCHES), nodes |-> ns]
      [] name = NAME_TAGS     -> [err |-> OK, entry |-> special_dir_entry(INODE_TAGS), nodes |-> ns]
      [] name \in {NAME_HEAD, <<"h","e","a","d">>} -> head_entry(ns, h)
      [] OTHER                -> Fail("ENOENT", ns)

lookup_root(ns, h, name) ==
    CASE name = NAME_COMMITS  -> [err |-> OK, entry |-> special_dir_entry(INODE_COMMITS), nodes |-> ns]
      [] name = NAME_BRANCHES -> [err |-> OK, entry |-> special_dir_entry(INODE_BRANCHES), nodes |-> ns]
      [] name = NAME_TAGS     -> [err |-> OK, entry |-> special_dir_entry(INODE_TAGS), nodes |-> ns]
      [] name = NAME_HEAD     -> head_entry(ns, h)
      [] OTHER                -> Fail("ENOENT", ns)

\* FileSystem::lookup: [err, entry, nodes]
lookup(ns, h, parent, name) ==
    IF parent = ROOT_ID THEN lookup_root(ns, h, name)
    ELSE IF parent = INODE_COMMITS THEN lookup_commit(ns, h, name)
    ELSE IF parent = INODE_BRANCHES
    THEN lookup_reference_symlink(ns, name, NAMESPACE_BRANCH, list_branches, INODE_BRANCHES)
    ELSE IF parent = INODE_TAGS
    THEN lookup_reference_symlink(ns, name, NAMESPACE_TAG, list_tags, INODE_TAGS)
    ELSE LET p == node_for_inode(ns, parent)
         IN  IF p.err # OK THEN Fail(p.err, ns)
             ELSE LET c == materialize_tree_child(ns, p.node, name)
                  IN  IF c.err # OK THEN Fail(c.err, c.nodes)
                      ELSE [err |-> OK, entry |-> make_entry(c.node.inode, c.attr),
                            nodes |-> c.nodes]

\* FileSystem::getattr: [err, attr, nodes]
getattr(ns, h, inode) ==
    IF inode = ROOT_ID THEN [err |-> OK, attr |-> root_attr, nodes |-> ns]
    ELSE IF inode \in {INODE_COMMITS, INODE_BRANCHES, INODE_TAGS}
    THEN [err |-> OK, attr |-> build_dir_attr(inode, DIRECTORY_ATTR_MODE, start_time),
          nodes |-> ns]
    ELSE IF inode = INODE_HEAD
    THEN LET m == head_metadata(ns, h)
         IN  IF m.err # OK THEN [err |-> m.err, attr |-> <<>>, nodes |-> m.nodes]
             ELSE [err |-> OK,
                   attr |-> build_symlink_attr(inode, SYMLINK_ATTR_MODE, m.meta.time,
                                               Len(m.target)),
                   nodes |-> m.nodes]
    ELSE LET n == node_for_inode(ns, inode)
         IN  IF n.err # OK THEN [err |-> n.err, attr |-> <<>>, nodes |-> ns]
             ELSE [err |-> OK, attr |-> attr_for_node(n.node), nodes |-> ns]

\* FileSystem::readlink: [err, target, nodes]
readlink(ns, h, inode) ==
    IF inode = INODE_HEAD
    THEN LET m == head_metadata(ns, h)
         IN  [err |-> m.err, target |-> m.target, nodes |-> m.nodes]
    ELSE LET n == node_for_inode(ns, inode)
         IN  IF n.err # OK THEN [err |-> n.err, target |-> <<>>, nodes |-> ns]
             ELSE IF n.node.kind.k \in {"Symlink", "SyntheticSymlink"}
             THEN [err |-> OK, target |-> n.node.kind.target, nodes |-> ns]
             ELSE [err |-> "EINVAL", target |-> <<>>, nodes |-> ns]

\* Variant: the end of the slice forgets the offset.
read_from_start(ns, inode, size, offset) ==
    LET n == node_for_inode(ns, inode)
    IN  IF n.err # OK THEN [err |-> n.err, written |-> <<>>, ret |-> 0]
        ELSE IF n.node.kind.k # "Blob" THEN [err |-> "EINVAL", written |-> <<>>, ret |-> 0]
        ELSE LET data == Object(n.node.kind.oid).data
                 len  == Len(data)
             IN  IF offset >= len THEN [err |-> OK, written |-> <<>>, ret |-> 0]
                 ELSE LET end == IF size < len THEN size ELSE len
                      IN  [err |-> OK, written |-> SubSeq(data, offset + 1, end),
                           ret |-> IF end > offset THEN end - offset ELSE 0]

\* FileSystem::read: [err, written, ret]; `written` is what reached the
\* ZeroCopyWriter, `ret` the returned byte count.
read(ns, inode, size, offset) ==
    LET n == node_for_inode(ns, inode)
    IN  IF n.err # OK THEN [err |-> n.err, written |-> <<>>, ret |-> 0]
        ELSE IF n.node.kind.k # "Blob" THEN [err |-> "EINVAL", written |-> <<>>, ret |-> 0]
        ELSE IF ~find_blob_ok(n.node.kind.oid)
        THEN [err |-> "Other", written |-> <<>>, ret |-> 0]
        ELSE LET data == Object(n.node.kind.oid).data
                 len  == Len(data)
             IN  IF offset >= len THEN [err |-> OK, written |-> <<>>, ret |-> 0]
                 ELSE LET sum == offset + size
                          end == IF sum < len THEN sum ELSE len
                      IN  [err |-> OK, written |-> SubSeq(data, offset + 1, end),
                           ret |-> end - offset]


\* ------------------------------------------------------------------------
\* readdir
\* ------------------------------------------------------------------------
\* The add_entry callback of one request: with buf.limited it returns 0 (the
\* reply buffer is full) once it has taken buf.cap entries.
\* A request state: what was passed to add_entry, what it took, whether it
\* returned 0, the handler's error and the cache.
DirEntry(ino, offset, type, name) ==
    [ino |-> ino, offset |-> offset, type_ |-> type, name |-> name]

RdStart(ns) == [err |-> OK, passed |-> <<>>, accepted |-> <<>>, full |-> FALSE, nodes |-> ns]

add_entry(st, buf, e) ==
    IF buf.limited /\ Len(st.accepted) >= buf.cap
    THEN [st EXCEPT !.passed = Append(@, e), !.full = TRUE]
    ELSE [st EXCEPT !.passed = Append(@, e), !.accepted = Append(@, e)]

\* The two leading blocks of every readdir_* function: "." at offset 0 and
\* ".." at offset 1.  Returns <<request state, offset>>.
emit_dots(st, buf, offset, dot_ino, dotdot_ino) ==
    LET s1 == IF offset = 0
              THEN add_entry(st, buf, DirEntry(dot_ino, 1, DT_DIR, NAME_DOT))
              ELSE st
        o1 == IF offset = 0 THEN 1 ELSE offset
    IN  IF s1.full THEN <<s1, o1>>
        ELSE LET s2 == IF o1 = 1
                       THEN add_entry(s1, buf, DirEntry(dotdot_ino, 2, DT_DIR, NAME_DOT_DOT))
                       ELSE s1
                 o2 == IF o1 = 1 /\ ~s2.full THEN 2 ELSE o1
             IN  <<s2, o2>>

\* `if offset > entry_offset { continue; }` of the four listing loops
\* Variant: the entry at the requested offset is skipped as well.
skips_inclusive(offset, entry_offset) == offset >= entry_offset

skips(offset, entry_offset) == offset > entry_offset

\* for (index, item) in list.iter().enumerate(): entry_offset = index + 3;
\* skip while offset > entry_offset; stop when add_entry returns 0.
\* `items` are (ino, type, name) triples, index counts from 0.
RECURSIVE emit_list(_, _, _, _, _)
emit_list(st, buf, offset, items, index) ==
    IF index >= Len(items) \/ st.full THEN st
    ELSE LET entry_offset == index + 3
         IN  IF skips(offset, entry_offset)
             THEN emit_list(st, buf, offset, items, index + 1)
             ELSE emit_list(add_entry(st, buf,
                                DirEntry(items[index + 1][1], entry_offset + 1,
                                         items[index + 1][2], items[index + 1][3])),
                            buf, offset, items, index + 1)

\* Variant: HEAD is listed before the three directories.
synthetic_entries_head_first ==
    << <<INODE_HEAD, DT_LNK, NAME_HEAD>>,
       <<INODE_COMMITS, DT_DIR, NAME_COMMITS>>,
       <<INODE_BRANCHES, DT_DIR, NAME_BRANCHES>>,
       <<INODE_TAGS, DT_DIR, NAME_TAGS>> >>

synthetic_entries ==
    << <<INODE_COMMITS, DT_DIR, NAME_COMMITS>>,
       <<INODE_BRANCHES, DT_DIR, NAME_BRANCHES>>,
       <<INODE_TAGS, DT_DIR, NAME_TAGS>>,
       <<INODE_HEAD, DT_LNK, NAME_HEAD>> >>

readdir_root(ns, offset, buf) ==
    LET d == emit_dots(RdStart(ns), buf, offset, ROOT_ID, ROOT_ID)
    IN  IF d[1].full THEN d[1]
        ELSE emit_list(d[1], buf, d[2], synthetic_entries, 0)

\* commits.sort_by(|a, b| a.0.cmp(&b.0)) over (hex name, inode) pairs
RECURSIVE SortedByName(_)
SortedByName(S) ==
    IF S = {} THEN <<>>
    ELSE LET m == CHOOSE x \in S : \A y \in S : ~StrLess(y[1], x[1])
         IN  <<m>> \o SortedByName(S \ {m})

readdir_commits(ns, offset, buf) ==
    LET d == emit_dots(RdStart(ns), buf, offset, INODE_COMMITS, ROOT_ID)
    IN  IF d[1].full THEN d[1]
        ELSE LET commits == SortedByName(
                     {<<ToHex(ns[i].kind.meta.id), ns[i].inode>> :
                        i \in {j \in DOMAIN ns : ns[j].kind.k = "Commit"}})
                 items == [i \in 1..Len(commits) |-> <<commits[i][2], DT_DIR, commits[i][1]>>]
             IN  emit_list(d[1], buf, d[2], items, 0)

\* the loop of readdir_refs: each ref not skipped is materialized (its commit
\* node, then its symlink node) before it is passed to add_entry.
RECURSIVE refs_loop(_, _, _, _, _, _, _)
refs_loop(st, buf, offset, refs, index, dir_inode, namespace) ==
    IF index >= Len(refs) \/ st.full \/ st.err # OK THEN st
    ELSE LET entry_offset == index + 3
         IN  IF skips(offset, entry_offset)
             THEN refs_loop(st, buf, offset, refs, index + 1, dir_inode, namespace)
             ELSE LET name  == refs[index + 1][1]
                      inode == synthetic_inode(namespace, name)
                      e     == ensure_commit_node(st.nodes, refs[index + 1][2])
                  IN  IF e.err # OK THEN [st EXCEPT !.err = e.err, !.nodes = e.nodes]
                      ELSE LET target == ref_target(e.meta)
                               node == Node(inode, dir_inode,
                                            NK_SyntheticSymlink(target, e.meta.time))
                               s1 == [st EXCEPT !.nodes = Insert(e.nodes, inode, node)]
                           IN  refs_loop(add_entry(s1, buf,
                                             DirEntry(inode, entry_offset + 1, DT_LNK, name)),
                                         buf, offset, refs, index + 1, dir_inode, namespace)

readdir_refs(ns, dir_inode, offset, buf, refs, namespace) ==
    LET d == emit_dots(RdStart(ns), buf, offset, dir_inode, ROOT_ID)
    IN  IF d[1].full THEN d[1]
        ELSE refs_loop(d[1], buf, d[2], refs, 0, dir_inode, namespace)

entry_type(mode) ==
    CASE mode = EK_Tree -> DT_DIR
      [] mode \in {EK_Blob, EK_BlobExecutable} -> DT_REG
      [] mode = EK_Link -> DT_LNK
      [] mode = EK_Commit -> DT_DIR

\* the loop of readdir_node over the tree's entries
RECURSIVE node_loop(_, _, _, _, _, _)
node_loop(st, buf, offset, entries, index, node) ==
    IF index >= Len(entries) \/ st.full \/ st.err # OK THEN st
    ELSE LET entry_offset == index + 3
         IN  IF skips(offset, entry_offset)
             THEN node_loop(st, buf, offset, entries, index + 1, node)
             ELSE LET filename == entries[index + 1].filename
                      c == materialize_tree_child(st.nodes, node, filename)
                  IN  IF c.err # OK THEN [st EXCEPT !.err = c.err, !.nodes = c.nodes]
                      ELSE node_loop(
                               add_entry([st EXCEPT !.nodes = c.nodes], buf,
                                   DirEntry(c.node.inode, entry_offset + 1,
                                            entry_type(entries[index + 1].mode), filename)),
                               buf, offset, entries, index + 1, node)

readdir_node(ns, node, offset, buf) ==
    LET d == emit_dots(RdStart(ns), buf, offset, node.inode, node.parent)
    IN  IF d[1].full THEN d[1]
        ELSE IF node.kind.k \in {"Submodule", "SyntheticSymlink"} THEN d[1]
        ELSE IF node.kind.k \in {"Blob", "Symlink"} THEN [d[1] EXCEPT !.err = "ENOTDIR"]
        ELSE LET tree_id == IF node.kind.k = "Commit" THEN node.kind.meta.tree
                                                      ELSE node.kind.tree
             IN  IF ~find_tree_ok(tree_id) THEN [d[1] EXCEPT !.err = "Other"]
                 ELSE node_loop(d[1], buf, d[2], Object(tree_id).entries, 0, node)

\* FileSystem::readdir: [err, passed, accepted, full, nodes]
readdir(ns, inode, offset, buf) ==
    IF inode = ROOT_ID THEN readdir_root(ns, offset, buf)
    ELSE IF inode = INODE_COMMITS THEN readdir_commits(ns, offset, buf)
    ELSE IF inode = INODE_BRANCHES
    THEN readdir_refs(ns, inode, offset, buf, list_branches, NAMESPACE_BRANCH)
    ELSE IF inode = INODE_TAGS
    THEN readdir_refs(ns, inode, offset, buf, list_tags, NAMESPACE_TAG)
    ELSE LET n == node_for_inode(ns, inode)
         IN  IF n.err # OK THEN [RdStart(ns) EXCEPT !.err = n.err]
             ELSE readdir_node(ns, n.node, offset, buf)

\* ------------------------------------------------------------------------
\* The mutating operations: each ignores its arguments
\* ------------------------------------------------------------------------
\* Variant: a write is refused as not permitted.
write_eperm(inode) == "EPERM"

setattr(inode)   == "EROFS"
symlink(inode)   == "EROFS"
mknod(inode)     == "EROFS"
mkdir(inode)     == "EROFS"
unlink(inode)    == "EROFS"
rmdir(inode)     == "EROFS"
rename(inode)    == "EROFS"
link(inode)      == "EROFS"
create(inode)    == "EROFS"
write(inode)     == "EROFS"
fallocate(inode) == "EROFS"

\* ------------------------------------------------------------------------
\* open and access
\* ------------------------------------------------------------------------
O_RDONLY  == 0
O_WRONLY  == 1
O_RDWR    == 2
O_ACCMODE == 3
W_OK      == 2
I32_MAX   == 2147483647

\* a & b on non-negative integers
RECURSIVE BitAnd(_, _)
BitAnd(a, b) ==
    IF a = 0 \/ b = 0 THEN 0
    ELSE (a % 2) * (b % 2) + 2 * BitAnd(a \div 2, b \div 2)

\* i32::try_from(u32)
i32_try_from_ok(v) == v <= I32_MAX

\* FileSystem::open: [err, handle]
open(ns, inode, flags) ==
    IF ~i32_try_from_ok(flags) THEN [err |-> "EINVAL", handle |-> <<>>]
    ELSE IF BitAnd(flags, O_ACCMODE) # O_RDONLY THEN [err |-> "EROFS", handle |-> <<>>]
    ELSE IF inode \in {ROOT_ID, INODE_COMMITS, INODE_BRANCHES, INODE_TAGS, INODE_HEAD}
    THEN [err |-> OK, handle |-> inode]
    ELSE LET n == node_for_inode(ns, inode)
         IN  IF n.err # OK THEN [err |-> n.err, handle |-> <<>>]
             ELSE [err |-> OK, handle |-> inode]

\* Variant: the mask is compared with W_OK instead of tested for the bit.
access_exact(inode, mask) ==
    IF ~i32_try_from_ok(mask) THEN "EINVAL"
    ELSE IF mask = W_OK THEN "EROFS"
    ELSE OK

\* FileSystem::access: the inode is not looked at
access(inode, mask) ==
    IF ~i32_try_from_ok(mask) THEN "EINVAL"
    ELSE IF BitAnd(mask, W_OK) # 0 THEN "EROFS"
    ELSE OK


\* ------------------------------------------------------------------------
\* The inode codec and the collision table (inode.rs)
\* ------------------------------------------------------------------------
\* InodeType
IT_Blob    == [k |-> "Blob"]
IT_Tree    == [k |-> "Tree"]
IT_Commit  == [k |-> "Commit"]
IT_Symlink == [k |-> "Symlink"]
IT_Synthetic(value) == [k |-> "Synthetic", value |-> value]

\* InodeType::tag
tag(kind) ==
    CASE kind.k = "Blob" -> 0
      [] kind.k = "Tree" -> 1
      [] kind.k = "Commit" -> 2
      [] kind.k = "Symlink" -> 3
      [] kind.k = "Synthetic" -> kind.value

\* u64 values are eight big-endian bytes.
\* (1u64 << 60) - 1
LOW_60_MASK == <<15, 255, 255, 255, 255, 255, 255, 255>>

And64(a, b) == [i \in 1..8 |-> BitAnd(a[i], b[i])]

Or64(a, b) == [i \in 1..8 |-> a[i] + b[i] - BitAnd(a[i], b[i])]

\* (t as u64) << 60: the bits shifted past bit 63 are lost
Shl60(t) == <<(t % 16) * 16, 0, 0, 0, 0, 0, 0, 0>>

\* Variant: the kind tag is left out.
ino_for_untagged(oid, kind) ==
    And64(SubSeq(oid, Len(oid) - 7, Len(oid)), LOW_60_MASK)

\* InodeTable::ino_for
ino_for(oid, kind) ==
    LET buf == SubSeq(oid, Len(oid) - 7, Len(oid))      \* bytes[bytes.len() - 8..]
        low == And64(buf, LOW_60_MASK)
    IN  Or64(low, Shl60(tag(kind)))

InodeEntry(oid, kind, collisions) ==
    [oid |-> oid, kind |-> kind, collisions |-> collisions]

CollisionRecord(oid, kind) == [oid |-> oid, kind |-> kind]

Contains(list, x) == \E i \in 1..Len(list) : list[i] = x

\* Variant: the collision is pushed without looking at the list.
record_collision_always(entry, collision) ==
    [entry EXCEPT !.collisions = Append(@, collision)]

\* if !entry.collisions.contains(&collision) { entry.collisions.push(..) }
record_collision(entry, collision) ==
    IF Contains(entry.collisions, collision) THEN entry
    ELSE [entry EXCEPT !.collisions = Append(@, collision)]

RegOk(ino, tbl) == [err |-> OK, ino |-> ino, inner |-> tbl]

\* Variant: an occupied slot holding the same pair is inserted afresh.
register_reinsert(tbl, oid, kind) ==
    LET ino == ino_for(oid, kind)
    IN  IF ino \notin DOMAIN tbl \/ (tbl[ino].oid = oid /\ tbl[ino].kind = kind)
        THEN RegOk(ino, Insert(tbl, ino, InodeEntry(oid, kind, <<>>)))
        ELSE [err |-> "Collision", ino |-> ino,
              existing_oid |-> tbl[ino].oid, existing_kind |-> tbl[ino].kind,
              attempted_oid |-> oid, attempted_kind |-> kind,
              inner |-> Insert(tbl, ino,
                               record_collision(tbl[ino], CollisionRecord(oid, kind)))]

\* Variant: a mismatching pair takes the slot over.
register_overwrite(tbl, oid, kind) ==
    LET ino == ino_for(oid, kind)
    IN  IF ino \notin DOMAIN tbl \/ (tbl[ino].oid = oid /\ tbl[ino].kind = kind)
        THEN RegOk(ino, Insert(tbl, ino, InodeEntry(oid, kind, <<>>)))
        ELSE [err |-> "Collision", ino |-> ino,
              existing_oid |-> tbl[ino].oid, existing_kind |-> tbl[ino].kind,
              attempted_oid |-> oid, attempted_kind |-> kind,
              inner |-> Insert(tbl, ino,
                               InodeEntry(oid, kind,
                                          <<CollisionRecord(tbl[ino].oid, tbl[ino].kind)>>))]

\* InodeTable::register: Ok(ino) or Err(InodeError::Collision { .. }), and the
\* table afterwards
register(tbl, oid, kind) ==
    LET ino == ino_for(oid, kind)
    IN  IF ino \notin DOMAIN tbl
        THEN RegOk(ino, Insert(tbl, ino, InodeEntry(oid, kind, <<>>)))
        ELSE IF tbl[ino].oid = oid /\ tbl[ino].kind = kind
        THEN RegOk(ino, tbl)
        ELSE [err |-> "Collision", ino |-> ino,
              existing_oid |-> tbl[ino].oid, existing_kind |-> tbl[ino].kind,
              attempted_oid |-> oid, attempted_kind |-> kind,
              inner |-> Insert(tbl, ino,
                               record_collision(tbl[ino], CollisionRecord(oid, kind)))]

\* InodeTable::snapshot: a clone of the map
snapshot(tbl) == tbl

\* InodeTable::restore: guard.extend(entries) inserts every given entry,
\* replacing the value of a key the map already has
restore(tbl, entries) ==
    [i \in DOMAIN tbl \cup DOMAIN entries |->
        IF i \in DOMAIN entries THEN entries[i] ELSE tbl[i]]


\* ------------------------------------------------------------------------
\* Requests
\* ------------------------------------------------------------------------
HEX_C1 == ToHex(OID_C1)
HEX_C2 == ToHex(OID_C2)

BranchNames == {list_branches[i][1] : i \in 1..Len(list_branches)}
TagNames    == {list_tags[i][1] : i \in 1..Len(list_tags)}

ReservedInodes == {ROOT_ID, INODE_COMMITS, INODE_BRANCHES, INODE_TAGS, INODE_HEAD}

\* Inode numbers a request may carry: the reserved ones, the number of every
\* object (the root trees are never materialized, so theirs are unknown to the
\* cache for ever) and the numbers of the ref symlinks.
Inodes ==
    ReservedInodes
    \cup {inode_from_oid(o) : o \in ObjectIds \cup {OID_S1}}
    \cup {synthetic_inode(NAMESPACE_BRANCH, n) : n \in BranchNames}
    \cup {synthetic_inode(NAMESPACE_TAG, n) : n \in TagNames}

\* Blob reads are asked of a blob of each kind of entry, of directories, of a
\* ref symlink and of numbers the cache never holds.
ReadInodes ==
    {ROOT_ID, INODE_HEAD, synthetic_inode(NAMESPACE_BRANCH, <<"m","a","i","n">>)}
    \cup {inode_from_oid(o) : o \in {OID_B0, OID_B1, OID_B2, OID_C1, OID_S1, OID_T1}}

\* The mutating handlers do not read their arguments.
RofsInodes ==
    {ROOT_ID, INODE_COMMITS, INODE_HEAD} \cup {inode_from_oid(o) : o \in {OID_B1, OID_C1, OID_T1}}

NamesUnderRoot ==
    {NAME_COMMITS, NAME_BRANCHES, NAME_TAGS, NAME_HEAD,
     <<"C","o","m","m","i","t","s">>, <<"h","e","a","d">>, <<"a">>}

NamesUnderCommits ==
    {HEX_C1, HEX_C2,
     SubSeq(HEX_C1, 1, 6),              \* abcd01: one commit
     SubSeq(HEX_C1, 1, 4),              \* abcd: two commits
     <<"a","b","c","e">>,               \* no object
     SubSeq(ToHex(OID_T1), 1, 4),       \* 1c01: one object, a tree
     <<"m","a","i","n">>,               \* a revision name
     <<"z","z">>,
     <<"a", InvalidByte>>}

NamesUnderRefs ==
    BranchNames \cup TagNames \cup {<<"z","z">>, <<"D","e","v">>, <<"v", InvalidByte>>}

NamesUnderNodes ==
    {<<"a">>, <<"d">>, <<"e">>, <<"f">>, <<"l">>, <<"m">>, <<"s">>, <<"x">>, <<"z","z">>}

NamesFor(parent) ==
    IF parent = ROOT_ID THEN NamesUnderRoot
    ELSE IF parent = INODE_COMMITS THEN NamesUnderCommits
    ELSE IF parent \in {INODE_BRANCHES, INODE_TAGS} THEN NamesUnderRefs
    ELSE NamesUnderNodes

Idle == [op |-> "none"]

NoWalk == [active |-> FALSE]

Unlimited == [limited |-> FALSE, cap |-> 0]

Buffers == {Unlimited} \cup {[limited |-> TRUE, cap |-> c] : c \in 0..MaxCap}

Init ==
    /\ nodes = <<>>
    /\ head \in {OID_C1, Unborn}
    /\ last = Idle
    /\ rd = NoWalk
    /\ inner = <<>>
    /\ snap = <<>>
    /\ thr = <<>>
    /\ repo = Stores

\* Requests whose replies are not inspected: the lookups and full listings
\* that can add to the cache, and the two requests on HEAD that resolve it.
\* A request that leaves the cache as it is is a stuttering step.
ServeParents ==
    {ROOT_ID, INODE_COMMITS, INODE_BRANCHES, INODE_TAGS}
    \cup {inode_from_oid(o) : o \in {OID_C1, OID_C2, OID_T3}}

ServeNames(parent) ==
    IF parent = ROOT_ID THEN {NAME_HEAD}
    ELSE IF parent = INODE_COMMITS THEN {HEX_C1, HEX_C2}
    ELSE IF parent = INODE_BRANCHES THEN BranchNames
    ELSE IF parent = INODE_TAGS THEN TagNames
    ELSE NamesUnderNodes

Serve ==
    /\ last = Idle
    /\ \/ \E parent \in ServeParents : \E name \in ServeNames(parent) :
             nodes' = lookup(nodes, head, parent, name).nodes
       \/ \E inode \in ServeParents :
             nodes' = readdir(nodes, inode, 0, Unlimited).nodes
       \/ nodes' = getattr(nodes, head, INODE_HEAD).nodes
       \/ nodes' = readlink(nodes, head, INODE_HEAD).nodes
    /\ nodes' # nodes
    /\ UNCHANGED <<head, last, rd, inner, snap, thr, repo>>

\* The reply has been sent; the next request may come.
Done ==
    /\ last # Idle
    /\ last' = Idle
    /\ UNCHANGED <<nodes, head, rd, inner, snap, thr, repo>>

\* Each action hands the handler's reply r to the operator that records it.
LookupReply(parent, name, r) ==
    /\ nodes' = r.nodes
    /\ last' = [op |-> "lookup", parent |-> parent, name |-> name,
                err |-> Errno(r.err), entry |-> r.entry,
                changed |-> (r.nodes # nodes)]

Lookup ==
    /\ last = Idle
    /\ \E parent \in Inodes : \E name \in NamesFor(parent) :
          LookupReply(parent, name, lookup(nodes, head, parent, name))
    /\ UNCHANGED <<head, rd, inner, snap, thr, repo>>

ReaddirReply(inode, offset, buf, r) ==
    /\ nodes' = r.nodes
    /\ last' = [op |-> "readdir", inode |-> inode, offset |-> offset,
                buf |-> buf, err |-> Errno(r.err),
                passed |-> r.passed, accepted |-> r.accepted]

Readdir ==
    /\ last = Idle
    /\ \E inode \in Inodes : \E offset \in 0..MaxOffset : \E buf \in Buffers :
          ReaddirReply(inode, offset, buf, readdir(nodes, inode, offset, buf))
    /\ UNCHANGED <<head, rd, inner, snap, thr, repo>>

ReadReply(inode, size, offset, r) ==
    last' = [op |-> "read", inode |-> inode, size |-> size, offset |-> offset,
             err |-> Errno(r.err), written |-> r.written, ret |-> r.ret]

Read ==
    /\ last = Idle
    /\ \E inode \in ReadInodes : \E size \in 0..MaxSize : \E offset \in 0..MaxReadOff :
          ReadReply(inode, size, offset, read(nodes, inode, size, offset))
    /\ UNCHANGED <<nodes, head, rd, inner, snap, thr, repo>>

\* The flags of an open request as the kernel sends them: an access mode,
\* possibly with further flags; none has bit 31.
OpenFlags ==
    {O_RDONLY, O_WRONLY, O_RDWR, O_ACCMODE,
     O_RDONLY + 2048,        \* | O_NONBLOCK
     O_WRONLY + 2048,
     O_RDONLY + 65536}       \* | O_DIRECTORY

\* The mask of an access request: F_OK or any of R_OK, W_OK, X_OK.
AccessMasks == 0..7

AccessInodes ==
    {ROOT_ID, INODE_HEAD} \cup {inode_from_oid(o) : o \in {OID_B1, OID_C1, OID_T1}}

GetattrReply(inode, r) ==
    /\ nodes' = r.nodes
    /\ last' = [op |-> "getattr", inode |-> inode, err |-> Errno(r.err),
                attr |-> r.attr, changed |-> (r.nodes # nodes)]

Getattr ==
    /\ last = Idle
    /\ \E inode \in Inodes : GetattrReply(inode, getattr(nodes, head, inode))
    /\ UNCHANGED <<head, rd, inner, snap, thr, repo>>

ReadlinkReply(inode, r) ==
    /\ nodes' = r.nodes
    /\ last' = [op |-> "readlink", inode |-> inode, err |-> Errno(r.err),
                target |-> r.target]

Readlink ==
    /\ last = Idle
    /\ \E inode \in Inodes : ReadlinkReply(inode, readlink(nodes, head, inode))
    /\ UNCHANGED <<head, rd, inner, snap, thr, repo>>

OpenReply(inode, flags, r) ==
    last' = [op |-> "open", inode |-> inode, flags |-> flags,
             err |-> Errno(r.err), handle |-> r.handle]

Open ==
    /\ last = Idle
    /\ \E inode \in Inodes : \E flags \in OpenFlags :
          OpenReply(inode, flags, open(nodes, inode, flags))
    /\ UNCHANGED <<nodes, head, rd, inner, snap, thr, repo>>

Access ==
    /\ last = Idle
    /\ \E inode \in AccessInodes : \E mask \in AccessMasks :
          last' = [op |-> "access", inode |-> inode, mask |-> mask,
                   err |-> Errno(access(inode, mask))]
    /\ UNCHANGED <<nodes, head, rd, inner, snap, thr, repo>>

\* Reference stores of one namespace: up to MaxRefs references with distinct
\* names, in any iteration order; a branch peels to a commit, a tag to a
\* commit or to a tree.  One name is not UTF-8 and one holds U+FFFD.
MaxRefs == 3

RefNames ==
    {<<"a">>, <<"a","b">>, <<"D">>, <<"a", InvalidByte>>, <<"a">> \o REPLACEMENT_CHARACTER}

BranchTargets == {OID_C1, OID_C2}
TagTargets    == {OID_C1, OID_C2, OID_T1}

RefStores(prefix, targets) ==
    LET seqs == UNION {[1..n -> RefNames \X targets] : n \in 0..MaxRefs}
    IN  {[i \in 1..Len(q) |-> <<prefix, q[i][1], q[i][2]>>] :
           q \in {r \in seqs : \A i, j \in 1..Len(r) : i # j => r[i][1] # r[j][1]}}

\* A mount of a repository with the given references in the listed namespace;
\* `last` holds what the repository was given until a listing is answered.
Mounted(dir, store) == [op |-> "refs", dir |-> dir, store |-> store]

InitRefs ==
    /\ nodes = <<>>
    /\ head = OID_C1
    /\ rd = NoWalk
    /\ inner = <<>>
    /\ snap = <<>>
    /\ thr = <<>>
    /\ repo = Stores
    /\ \/ \E store \in RefStores("refs/heads/", BranchTargets) : last = Mounted(INODE_BRANCHES, store)
       \/ \E store \in RefStores("refs/tags/", TagTargets) : last = Mounted(INODE_TAGS, store)

RefsReply(offset, buf, r) ==
    /\ nodes' = r.nodes
    /\ last' = [op |-> "readdir_refs", dir |-> last.dir, store |-> last.store,
                offset |-> offset, buf |-> buf, err |-> Errno(r.err),
                passed |-> r.passed, accepted |-> r.accepted]

\* FileSystem::readdir on branches/ or tags/ of that repository
RefsReaddir ==
    /\ last.op = "refs"
    /\ \E offset \in 0..MaxOffset : \E buf \in Buffers :
          RefsReply(offset, buf,
                    readdir_refs(nodes, last.dir, offset, buf, collect_refs(last.store),
                                 IF last.dir = INODE_BRANCHES THEN NAMESPACE_BRANCH
                                                              ELSE NAMESPACE_TAG))
    /\ UNCHANGED <<head, rd, inner, snap, thr, repo>>

RefsDone ==
    /\ last.op = "readdir_refs"
    /\ last' = Mounted(last.dir, last.store)
    /\ UNCHANGED <<nodes, head, rd, inner, snap, thr, repo>>

\* Object ids chosen by their trailing bytes: byte 1, byte 13 and byte 20 are
\* given, the others are zero.
OidTail(lead, b13, z) ==
    <<lead>> \o [i \in 1..11 |-> 0] \o <<b13>> \o [i \in 1..6 |-> 0] \o <<z>>

OID_XA == OidTail(0, 0, 205)      \* 00..00cd
OID_XB == OidTail(17, 0, 205)     \* the trailing eight bytes of OID_XA
OID_XN == OidTail(0, 240, 205)    \* as OID_XA but for the top four bits of byte 13
OID_X1 == OidTail(1, 0, 1)        \* trailing eight bytes 00..01

\* Inputs of the codec: the ids of the repository and the ids above under
\* every kind; names of refs under both namespaces.
CodecOids == ObjectIds \cup {OID_XA, OID_XB, OID_XN, OID_X1}

CodecKinds ==
    {IT_Blob, IT_Tree, IT_Commit, IT_Symlink,
     IT_Synthetic(7), IT_Synthetic(16), IT_Synthetic(127)}

InitCodec ==
    /\ nodes = <<>>
    /\ head = OID_C1
    /\ rd = NoWalk
    /\ inner = <<>>
    /\ snap = <<>>
    /\ thr = <<>>
    /\ repo = Stores
    /\ \/ \E oid \in CodecOids : \E kind \in CodecKinds :
             last = [op |-> "encode", oid |-> oid, kind |-> kind]
       \/ \E namespace \in {NAMESPACE_BRANCH, NAMESPACE_TAG} :
          \E name \in RefNames \cup BranchNames \cup TagNames :
             last = [op |-> "name", namespace |-> namespace, name |-> name]

InoFor ==
    /\ last.op = "encode"
    /\ last' = [op |-> "ino_for", oid |-> last.oid, kind |-> last.kind,
                ino |-> ino_for(last.oid, last.kind)]
    /\ UNCHANGED <<nodes, head, rd, inner, snap, thr, repo>>

SyntheticInode ==
    /\ last.op = "name"
    /\ last' = [op |-> "synthetic_inode", namespace |-> last.namespace,
                name |-> last.name,
                ino |-> synthetic_inode(last.namespace, last.name)]
    /\ UNCHANGED <<nodes, head, rd, inner, snap, thr, repo>>

\* The pairs registered with the collision table.  Three of them share one
\* slot, two share another.
RegPairs ==
    {<<OID_XA, IT_Blob>>, <<OID_XB, IT_Blob>>, <<OID_XA, IT_Synthetic(16)>>,
     <<OID_XA, IT_Tree>>, <<OID_XN, IT_Tree>>,
     <<OID_X1, IT_Commit>>}

InitTable == Init /\ head = OID_C1

RegisterReply(oid, kind, r) ==
    /\ inner' = r.inner
    /\ last' = [r EXCEPT !.inner = "table"] @@ [op |-> "register", oid |-> oid, kind |-> kind]

Register ==
    /\ last = Idle
    /\ \E p \in RegPairs : RegisterReply(p[1], p[2], register(inner, p[1], p[2]))
    /\ UNCHANGED <<nodes, head, rd, snap, thr, repo>>

Snapshot ==
    /\ last = Idle
    /\ snap' = snapshot(inner)
    /\ last' = [op |-> "snapshot"]
    /\ UNCHANGED <<nodes, head, rd, inner, thr, repo>>

Restore ==
    /\ last = Idle
    /\ inner' = restore(inner, snap)
    /\ last' = [op |-> "restore"]
    /\ UNCHANGED <<nodes, head, rd, snap, thr, repo>>

\* Lookups on concurrent threads.  GitSnapFs is shared behind an Arc and its
\* cache sits behind an RwLock; a lookup under a tree takes the read lock for
\* node_for_inode and for the check of the child inode (fs.rs:409-412) and
\* the write lock for the insert (fs.rs:480).  Between the two another thread
\* may take either lock.
Threads == {1, 2}

RaceParents == {inode_from_oid(OID_C1), inode_from_oid(OID_C2)}

RaceNames == {<<"d">>, <<"e">>}

InitRace ==
    /\ nodes = <<>>
    /\ head = OID_C1
    /\ last = Idle
    /\ rd = NoWalk
    /\ inner = <<>>
    /\ snap = <<>>
    /\ thr = [t \in Threads |-> [pc |-> "idle"]]
    /\ repo = Stores

\* A lookup under commits/ served in one piece: it puts the commit into the
\* cache.
ServeCommit ==
    /\ \E name \in {HEX_C1, HEX_C2} :
          nodes' = lookup(nodes, head, INODE_COMMITS, name).nodes
    /\ nodes' # nodes
    /\ UNCHANGED <<head, last, rd, inner, snap, thr, repo>>

\* The thread has the result c of materialize_tree_child up to the insert:
\* an error or a node found in the cache is returned at once, a node built
\* afresh is still to be inserted.
CheckReply(t, parent, name, c) ==
    thr' = [thr EXCEPT ![t] =
              IF c.err # OK
              THEN [pc |-> "done", parent |-> parent, name |-> name, err |-> Errno(c.err),
                    node |-> c.node, attr |-> c.attr, wrote |-> FALSE]
              ELSE [pc |-> IF c.nodes = nodes THEN "done" ELSE "insert",
                    parent |-> parent, name |-> name, err |-> OK,
                    node |-> c.node, attr |-> c.attr, wrote |-> FALSE]]

\* lookup up to the check of the child inode
LookupCheck(t) ==
    /\ thr[t].pc = "idle"
    /\ \E parent \in RaceParents \cap DOMAIN nodes : \E name \in RaceNames :
          CheckReply(t, parent, name, materialize_tree_child(nodes, nodes[parent], name))
    /\ UNCHANGED <<nodes, head, last, rd, inner, snap, repo>>

\* self.nodes.write().insert(child_inode, node.clone()); Ok((node, attr))
LookupInsert(t) ==
    /\ thr[t].pc = "insert"
    /\ nodes' = Insert(nodes, thr[t].node.inode, thr[t].node)
    /\ thr' = [thr EXCEPT ![t].pc = "done", ![t].wrote = TRUE]
    /\ UNCHANGED <<head, last, rd, inner, snap, repo>>

\* Both replies have been sent; the threads take the next requests.
RaceDone ==
    /\ \A t \in Threads : thr[t].pc = "done"
    /\ thr' = [t \in Threads |-> [pc |-> "idle"]]
    /\ UNCHANGED <<nodes, head, last, rd, inner, snap, repo>>

\* The refs move while the filesystem is mounted.  The handlers read the
\* repository at every request (list_branches, list_tags, resolve_head); the
\* actions below hand them the refs and the HEAD of the moment.
RefDirs ==
    {[dir |-> INODE_BRANCHES, namespace |-> NAMESPACE_BRANCH, field |-> "heads"],
     [dir |-> INODE_TAGS, namespace |-> NAMESPACE_TAG, field |-> "tags"]}

MoveTargets == {OID_C1, OID_C2}

\* git update-ref on a branch or a tag, outside the filesystem
MoveRef ==
    /\ last = Idle
    /\ \E d \in RefDirs : \E i \in 1..Len(repo[d.field]) :
       \E c \in MoveTargets \ {repo[d.field][i][3]} :
          repo' = [repo EXCEPT ![d.field][i][3] = c]
    /\ UNCHANGED <<nodes, head, last, rd, inner, snap, thr>>

\* HEAD moves to another commit, outside the filesystem
MoveHead ==
    /\ last = Idle
    /\ head' \in MoveTargets \ {head}
    /\ UNCHANGED <<nodes, last, rd, inner, snap, thr, repo>>

\* FileSystem::lookup under branches/ or tags/
RefLookup ==
    /\ last = Idle
    /\ \E d \in RefDirs : \E name \in BranchNames \cup TagNames :
          LookupReply(d.dir, name,
                      lookup_reference_symlink(nodes, name, d.namespace,
                                               collect_refs(repo[d.field]), d.dir))
    /\ UNCHANGED <<head, rd, inner, snap, thr, repo>>

\* FileSystem::readdir on branches/ or tags/
RefReaddir ==
    /\ last = Idle
    /\ \E d \in RefDirs : \E offset \in 0..MaxOffset : \E buf \in Buffers :
          ReaddirReply(d.dir, offset, buf,
                       readdir_refs(nodes, d.dir, offset, buf,
                                    collect_refs(repo[d.field]), d.namespace))
    /\ UNCHANGED <<head, rd, inner, snap, thr, repo>>

\* FileSystem::readlink on HEAD and on the inodes of the ref symlinks
RefReadlink ==
    /\ last = Idle
    /\ \E inode \in {INODE_HEAD}
                    \cup {synthetic_inode(d.namespace, name) :
                            d \in RefDirs, name \in BranchNames \cup TagNames} :
          ReadlinkReply(inode, readlink(nodes, head, inode))
    /\ UNCHANGED <<head, rd, inner, snap, thr, repo>>

\* register on concurrent threads.  The write guard of InodeTable.inner is
\* taken at inode.rs:119 and dropped when register returns, so the whole
\* match on the entry runs under it: a thread calls, runs register when no
\* other thread holds the guard, and returns.
InitReg ==
    /\ nodes = <<>>
    /\ head = OID_C1
    /\ last = Idle
    /\ rd = NoWalk
    /\ inner = <<>>
    /\ snap = <<>>
    /\ thr = [t \in Threads |-> [pc |-> "idle"]]
    /\ repo = Stores

RegCall(t) ==
    /\ thr[t].pc = "idle"
    /\ \E p \in RegPairs :
          thr' = [thr EXCEPT ![t] = [pc |-> "call", oid |-> p[1], kind |-> p[2]]]
    /\ UNCHANGED <<nodes, head, last, rd, inner, snap, repo>>

\* The thread holds the guard and has run the match; r is what register
\* computed, vacant tells whether it found the slot vacant.
GuardedReply(t, r) ==
    /\ inner' = r.inner
    /\ thr' = [thr EXCEPT ![t] = [pc |-> "guard", oid |-> thr[t].oid, kind |-> thr[t].kind,
                                  err |-> r.err, ino |-> r.ino,
                                  vacant |-> (r.ino \notin DOMAIN inner)]]

RegGuarded(t) ==
    /\ thr[t].pc = "call"
    /\ \A u \in Threads : thr[u].pc # "guard"
    /\ GuardedReply(t, register(inner, thr[t].oid, thr[t].kind))
    /\ UNCHANGED <<nodes, head, last, rd, snap, repo>>

RegReturn(t) ==
    /\ thr[t].pc = "guard"
    /\ thr' = [thr EXCEPT ![t].pc = "done"]
    /\ UNCHANGED <<nodes, head, last, rd, inner, snap, repo>>

\* ------------------------------------------------------------------------
\* The guards of the node cache
\* ------------------------------------------------------------------------
\* What a handler does with GitSnapFs.nodes, as the sequence of its steps on
\* the lock: "read" and "write" take a guard, "unread" and "unwrite" drop it,
\* "insert" is HashMap::insert under the write guard, "add_entry" the callback
\* of readdir.  hit tells whether the check of the cache found what it looked
\* for (or an error ended the function before the insert).

\* self.nodes.read().get(&inode).cloned(): the guard is a temporary of the
\* statement
guards_node_for_inode == <<"read", "unread">>

\* Variant: the insert inside the scope of the read guard.
guards_ensure_commit_node_nested(hit) ==
    IF hit THEN <<"read", "unread">>
    ELSE <<"read", "write", "insert", "unwrite", "unread">>

\* if let Some(existing) = self.nodes.read().get(&inode) { .. } ends before
\* the commit is read and self.nodes.write().insert(inode, node) runs
guards_ensure_commit_node(hit) ==
    IF hit THEN <<"read", "unread">>
    ELSE <<"read", "unread", "write", "insert", "unwrite">>

\* the check at fs.rs:409-412 and the insert at fs.rs:480
guards_materialize_tree_child(hit) ==
    IF hit THEN <<"read", "unread">>
    ELSE <<"read", "unread", "write", "insert", "unwrite">>

\* the insert of a branch or tag symlink (fs.rs:233 and fs.rs:283-296)
guards_insert_symlink == <<"write", "insert", "unwrite">>

\* the block that collects the commit nodes (fs.rs:343-355)
guards_readdir_commits == <<"read", "unread">>

MaxEntries == 2     \* entries after '.' and '..' that a listing walks

RECURSIVE Flatten(_)
Flatten(seqs) == IF seqs = <<>> THEN <<>> ELSE Head(seqs) \o Flatten(Tail(seqs))

\* Outcomes of the cache check for each entry of a listing.
HitSeqs == UNION {[1..n -> BOOLEAN] : n \in 0..MaxEntries}

Dots == <<"add_entry", "add_entry">>

\* The requests, by handler: lookup under a tree, under commits/ (and every
\* request on HEAD), under branches/ or tags/; readdir on commits/, on
\* branches/ or tags/, on a tree; getattr, readlink, read on a cached inode.
LockPrograms ==
    {guards_node_for_inode \o guards_materialize_tree_child(hit) : hit \in BOOLEAN}
    \cup {guards_ensure_commit_node(hit) : hit \in BOOLEAN}
    \cup {guards_ensure_commit_node(hit) \o guards_insert_symlink : hit \in BOOLEAN}
    \cup {Dots \o guards_readdir_commits \o <<"add_entry">>}
    \cup {Dots \o Flatten([i \in DOMAIN hits |->
                             guards_ensure_commit_node(hits[i]) \o guards_insert_symlink
                             \o <<"add_entry">>]) : hits \in HitSeqs}
    \cup {guards_node_for_inode \o Dots
          \o Flatten([i \in DOMAIN hits |->
                        guards_materialize_tree_child(hits[i]) \o <<"add_entry">>])
             : hits \in HitSeqs}
    \cup {guards_node_for_inode}

\* Every thread has one request to serve.
InitLock ==
    /\ nodes = <<>>
    /\ head = OID_C1
    /\ last = Idle
    /\ rd = NoWalk
    /\ inner = <<>>
    /\ snap = <<>>
    /\ repo = Stores
    /\ thr \in [Threads -> {[prog |-> p, pc |-> 1, queued |-> FALSE] : p \in LockPrograms}]

\* The step a thread is at.
At(t) == IF thr[t].pc <= Len(thr[t].prog) THEN thr[t].prog[thr[t].pc] ELSE "done"

Taken(t, x) == Cardinality({i \in 1..(thr[t].pc - 1) : thr[t].prog[i] = x})

HoldsRead(t) == Taken(t, "read") > Taken(t, "unread")

HoldsWrite(t) == Taken(t, "write") > Taken(t, "unwrite")

Advance(t) == thr' = [thr EXCEPT ![t].pc = @ + 1, ![t].queued = FALSE]

\* parking_lot::RwLock::read: blocks while a writer holds the lock or waits
\* for it
AcquireRead(t) ==
    /\ At(t) = "read"
    /\ \A u \in Threads : ~HoldsWrite(u) /\ ~thr[u].queued
    /\ Advance(t)
    /\ UNCHANGED <<nodes, head, last, rd, inner, snap, repo>>

\* parking_lot::RwLock::write: the thread queues, and gets the lock when no
\* guard is out
QueueWrite(t) ==
    /\ At(t) = "write"
    /\ ~thr[t].queued
    /\ thr' = [thr EXCEPT ![t].queued = TRUE]
    /\ UNCHANGED <<nodes, head, last, rd, inner, snap, repo>>

AcquireWrite(t) ==
    /\ At(t) = "write"
    /\ thr[t].queued
    /\ \A u \in Threads : ~HoldsRead(u) /\ ~HoldsWrite(u)
    /\ Advance(t)
    /\ UNCHANGED <<nodes, head, last, rd, inner, snap, repo>>

\* A guard goes out of scope.
ReleaseGuard(t) ==
    /\ At(t) \in {"unread", "unwrite"}
    /\ Advance(t)
    /\ UNCHANGED <<nodes, head, last, rd, inner, snap, repo>>

\* HashMap::insert, or the add_entry callback.
Work(t) ==
    /\ At(t) \in {"insert", "add_entry"}
    /\ Advance(t)
    /\ UNCHANGED <<nodes, head, last, rd, inner, snap, repo>>

\* A mutating request: the handler touches nothing and returns its error.
Reject(op, err, inode) ==
    /\ last = Idle
    /\ last' = [op |-> op, inode |-> inode, err |-> Errno(err)]
    /\ UNCHANGED <<nodes, head, rd, inner, snap, thr, repo>>

Setattr   == \E i \in RofsInodes : Reject("setattr", setattr(i), i)
Symlink   == \E i \in RofsInodes : Reject("symlink", symlink(i), i)
Mknod     == \E i \in RofsInodes : Reject("mknod", mknod(i), i)
Mkdir     == \E i \in RofsInodes : Reject("mkdir", mkdir(i), i)
Unlink    == \E i \in RofsInodes : Reject("unlink", unlink(i), i)
Rmdir     == \E i \in RofsInodes : Reject("rmdir", rmdir(i), i)
Rename    == \E i \in RofsInodes : Reject("rename", rename(i), i)
Link      == \E i \in RofsInodes : Reject("link", link(i), i)
Create    == \E i \in RofsInodes : Reject("create", create(i), i)
Write     == \E i \in RofsInodes : Reject("write", write(i), i)
Fallocate == \E i \in RofsInodes : Reject("fallocate", fallocate(i), i)

Mutate ==
    \/ Setattr \/ Symlink \/ Mknod \/ Mkdir \/ Unlink \/ Rmdir
    \/ Rename \/ Link \/ Create \/ Write \/ Fallocate

\* Name resolution, with every reply inspected.
Next == Lookup \/ Done \/ Serve
Spec == Init /\ [][Next]_vars

\* Directory listing at arbitrary offsets and buffer sizes.
NextReaddir == Serve \/ Readdir \/ Done
SpecReaddir == Init /\ [][NextReaddir]_vars

\* Blob reads.
NextRead == Serve \/ Read \/ Done
SpecRead == Init /\ [][NextRead]_vars

\* The mutating operations.
NextRofs == Serve \/ Mutate \/ Done
SpecRofs == Init /\ [][NextRofs]_vars

\* Attributes, through lookup and through getattr.
NextAttr == Serve \/ Lookup \/ Getattr \/ Done
SpecAttr == Init /\ [][NextAttr]_vars

\* readlink, open and access.
NextNode == Serve \/ Readlink \/ Open \/ Access \/ Done
SpecNode == Init /\ [][NextNode]_vars

\* Listings of branches/ and tags/ over every reference store.
NextRefs == RefsReaddir \/ RefsDone
SpecRefs == InitRefs /\ [][NextRefs]_vars

\* The inode codec and synthetic_inode on their inputs.
NextCodec == InoFor \/ SyntheticInode
SpecCodec == InitCodec /\ [][NextCodec]_vars

\* The collision table under register, snapshot and restore.
NextTable == Register \/ Snapshot \/ Restore \/ Done
SpecTable == InitTable /\ [][NextTable]_vars

\* The requests that fill the node cache and the ones that read it.
NextCache == Lookup \/ Readdir \/ Getattr \/ Open \/ Done
SpecCache == Init /\ [][NextCache]_vars

\* Two threads looking up children of cached commits, step by step.
NextRace == ServeCommit \/ (\E t \in Threads : LookupCheck(t)) \/ (\E t \in Threads : LookupInsert(t)) \/ RaceDone
SpecRace == InitRace /\ [][NextRace]_vars

\* Two threads registering pairs with one collision table.
NextReg == (\E t \in Threads : RegCall(t)) \/ (\E t \in Threads : RegGuarded(t)) \/ (\E t \in Threads : RegReturn(t)) \/ RaceDone
SpecReg == InitReg /\ [][NextReg]_vars

\* Threads serving one request each against the lock of the node cache.  A
\* thread that can take a step takes one in the end: the threads run.
NextLock ==
    \E t \in Threads :
        AcquireRead(t) \/ QueueWrite(t) \/ AcquireWrite(t) \/ ReleaseGuard(t) \/ Work(t)
SpecLock == InitLock /\ [][NextLock]_vars /\ WF_vars(NextLock)

\* Lookups, listings and readlink on refs that move under the mount.
NextMove == MoveRef \/ MoveHead \/ RefLookup \/ RefReaddir \/ RefReadlink \/ Done
SpecMove == Init /\ [][NextMove]_vars

\* A client lists one directory with chained readdir requests: the first at
\* offset 0, each next one at the offset of the last entry its predecessor's
\* buffer took.  Other requests are served in between.
WalkDirs ==
    {ROOT_ID, INODE_BRANCHES, INODE_TAGS}
    \cup {i \in DOMAIN nodes : nodes[i].kind.k \in {"Commit", "Tree"}}

WalkStart ==
    /\ last = Idle
    /\ ~rd.active
    /\ \E inode \in WalkDirs :
          rd' = [active |-> TRUE, inode |-> inode, offset |-> 0, delivered |-> <<>>,
                 paged |-> FALSE, done |-> FALSE, err |-> OK]
    /\ UNCHANGED <<nodes, head, last, inner, snap, thr, repo>>

WalkReply(r, n) ==
    /\ nodes' = r.nodes
    /\ rd' = [rd EXCEPT !.delivered = @ \o r.accepted,
                        !.offset = IF n = 0 THEN @ ELSE r.accepted[n].offset,
                        !.paged = (@ \/ r.full),
                        !.done = (r.err = OK /\ ~r.full),
                        !.err = Errno(r.err)]

WalkAccept(r) == WalkReply(r, Len(r.accepted))

WalkStep ==
    /\ last = Idle
    /\ rd.active /\ ~rd.done /\ rd.err = OK
    /\ \E buf \in Buffers : WalkAccept(readdir(nodes, rd.inode, rd.offset, buf))
    /\ UNCHANGED <<head, last, inner, snap, thr, repo>>

\* HEAD plays no part in a listing: the walk is checked with HEAD born.
InitWalk == Init /\ head = OID_C1

NextWalk == Serve \/ WalkStart \/ WalkStep
SpecWalk == InitWalk /\ [][NextWalk]_vars

\* ------------------------------------------------------------------------
\* Properties
\* ------------------------------------------------------------------------
MutatingOps ==
    {"setattr", "symlink", "mknod", "mkdir", "unlink", "rmdir", "rename",
     "link", "create", "write", "fallocate"}

\* C1: every mutating operation (setattr, symlink, mknod, mkdir, unlink,
\* rmdir, rename, link, create, write, fallocate) fails with EROFS for every
\* inode, in every reachable state, and leaves the node cache unchanged.
C1_MutatingOpsFailEROFS ==
    [][ (last'.op \in MutatingOps) => (last'.err = "EROFS" /\ nodes' = nodes) ]_vars

\* C1 witness: fallocate on a materialized blob inode was refused with EROFS
\* while the cache also held other nodes.
C1_Witness ==
    /\ last.op = "fallocate"
    /\ last.err = "EROFS"
    /\ last.inode = inode_from_oid(OID_B1)
    /\ last.inode \in DOMAIN nodes
    /\ Cardinality(DOMAIN nodes) >= 3

\* C2: readdir on commits/ (inode 2) fails with ENOTSUP at every offset and
\* in every reachable state, and passes no entry to add_entry.
C2_CommitsNotListable ==
    (last.op = "readdir" /\ last.inode = INODE_COMMITS)
        => (last.err = "ENOTSUP" /\ last.passed = <<>>)

\* The listing a single unbounded readdir from offset 0 delivers now.
FullListing(inode) == readdir(nodes, inode, 0, Unlimited).accepted

\* C3: for the root, branches/, tags/ and every tree-backed directory, the
\* entries delivered by readdir calls that chain their offsets (each next call
\* at the offset of the last accepted entry), for every pattern of buffer-full
\* points, are at every moment a prefix of the single unbounded listing and,
\* once a call ends without a full buffer, exactly that listing.
C3_PagingReproducesListing ==
    rd.active =>
        /\ rd.err = OK
        /\ IsPrefix(rd.delivered, FullListing(rd.inode))
        /\ rd.done => rd.delivered = FullListing(rd.inode)

\* C3 witness: the six-entry tree of commit C1 was listed completely by a
\* walk in which at least one call stopped on a full buffer.
C3_Witness ==
    /\ rd.active /\ rd.done /\ rd.paged
    /\ rd.inode = inode_from_oid(OID_C1)
    /\ Len(rd.delivered) = 8

\* C4: in a readdir from offset 0 of the root, commits/, branches/ or tags/,
\* "." carries offset 1, ".." offset 2, the first entry after them offset 3
\* and each later entry one more than the entry before it.
C4_OffsetsCountFromOne ==
    (/\ last.op = "readdir"
     /\ last.inode \in {ROOT_ID, INODE_COMMITS, INODE_BRANCHES, INODE_TAGS}
     /\ last.offset = 0
     /\ last.err = OK)
        => /\ \A i \in 1..Len(last.passed) : last.passed[i].offset = i
           /\ Len(last.passed) >= 1 => last.passed[1].name = NAME_DOT
           /\ Len(last.passed) >= 2 => last.passed[2].name = NAME_DOT_DOT

\* File type and permission bits a tree entry's mode stands for.
ModeOfEntry(mode) ==
    CASE mode \in {EK_Tree, EK_Commit} -> S_IFDIR + PERM_DIR
      [] mode = EK_Blob -> S_IFREG + PERM_FILE
      [] mode = EK_BlobExecutable -> S_IFREG + PERM_EXEC
      [] mode = EK_Link -> S_IFLNK + PERM_LINK

\* The tree a materialized directory node lists.
TreeOfNode(node) ==
    IF node.kind.k = "Commit" THEN node.kind.meta.tree ELSE node.kind.tree

\* C5: for every tree T and entry (name, mode, oid) of T, after any earlier
\* lookups and readdirs, lookup of name under the inode for T returns an entry
\* whose type and permission bits follow the entry's mode and whose inode is
\* the one derived from the entry's object id.
C5_LookupFollowsTreeEntry ==
    (/\ last.op = "lookup"
     /\ last.parent \in DOMAIN nodes
     /\ nodes[last.parent].kind.k \in {"Commit", "Tree"}
     /\ FindEntry(Object(TreeOfNode(nodes[last.parent])).entries, last.name) # 0)
        => LET entries == Object(TreeOfNode(nodes[last.parent])).entries
               e == entries[FindEntry(entries, last.name)]
           IN  /\ last.err = OK
               /\ last.entry.attr.st_mode = ModeOfEntry(e.mode)
               /\ last.entry.inode = inode_from_oid(e.oid)

\* C6 as stated: under the root, the names commits, branches, tags and HEAD
\* (byte for byte) give the reserved inodes 2, 3, 4 and 5, every other name
\* fails with ENOENT, and the three directory names add nothing to the cache.
C6_RootLookupAsStated ==
    (last.op = "lookup" /\ last.parent = ROOT_ID)
        => CASE last.name = NAME_COMMITS ->
                    last.err = OK /\ last.entry.inode = INODE_COMMITS /\ ~last.changed
             [] last.name = NAME_BRANCHES ->
                    last.err = OK /\ last.entry.inode = INODE_BRANCHES /\ ~last.changed
             [] last.name = NAME_TAGS ->
                    last.err = OK /\ last.entry.inode = INODE_TAGS /\ ~last.changed
             [] last.name = NAME_HEAD ->
                    last.err = OK /\ last.entry.inode = INODE_HEAD
             [] OTHER -> last.err = "ENOENT" /\ ~last.changed

\* C6 (amended): as above, except that HEAD gives inode 5 only while HEAD
\* resolves to a commit; with an unborn HEAD the lookup of HEAD fails with EIO
\* and adds nothing to the cache.
C6_RootLookup ==
    (last.op = "lookup" /\ last.parent = ROOT_ID)
        => CASE last.name = NAME_COMMITS ->
                    last.err = OK /\ last.entry.inode = INODE_COMMITS /\ ~last.changed
             [] last.name = NAME_BRANCHES ->
                    last.err = OK /\ last.entry.inode = INODE_BRANCHES /\ ~last.changed
             [] last.name = NAME_TAGS ->
                    last.err = OK /\ last.entry.inode = INODE_TAGS /\ ~last.changed
             [] last.name = NAME_HEAD ->
                    IF head = Unborn
                    THEN last.err = "EIO" /\ ~last.changed
                    ELSE last.err = OK /\ last.entry.inode = INODE_HEAD
             [] OTHER -> last.err = "ENOENT" /\ ~last.changed

\* C6 witness: with nodes already cached, a name that differs from "commits"
\* only in case was refused with ENOENT.
C6_Witness ==
    /\ last.op = "lookup" /\ last.parent = ROOT_ID
    /\ last.name = <<"C","o","m","m","i","t","s">>
    /\ last.err = "ENOENT"
    /\ nodes # <<>>

\* Tips of HEAD, the branches and the tags.
ReachableCommits ==
    ({head} \ {Unborn})
    \cup ({list_branches[i][2] : i \in 1..Len(list_branches)}
          \cup {list_tags[i][2] : i \in 1..Len(list_tags)})

\* C7: for every commit reachable via HEAD, a branch or a tag, and in every
\* state of the cache, lookup of its full hex id under commits/ succeeds and a
\* following getattr on the returned inode reports a directory with mode 0755.
C7_CommitLookupIsDirectory ==
    (/\ last.op = "lookup" /\ last.parent = INODE_COMMITS
     /\ \E c \in ReachableCommits : last.name = ToHex(c))
        => /\ last.err = OK
           /\ LET g == getattr(nodes, head, last.entry.inode)
              IN  /\ g.err = OK
                  /\ g.attr.st_mode = S_IFDIR + PERM_DIR
                  /\ g.attr.st_ino = last.entry.inode

\* C7 witness: commit C2 was looked up by its full id while the cache already
\* held nodes of the other commit's tree.
C7_Witness ==
    /\ last.op = "lookup" /\ last.parent = INODE_COMMITS
    /\ last.name = HEX_C2 /\ last.err = OK
    /\ inode_from_oid(OID_B1) \in DOMAIN nodes

\* C8: under commits/, a hex prefix of exactly one commit succeeds, a prefix
\* of two or more objects fails with EIO, a name matching no object fails with
\* ENOENT, and both failures leave the cache unchanged.
C8_CommitLookupOutcomes ==
    (last.op = "lookup" /\ last.parent = INODE_COMMITS /\ IsHexString(last.name))
        => LET m == PrefixMatches(last.name)
           IN  /\ (Cardinality(m) = 1 /\ \A o \in m : find_commit_ok(o)) => last.err = OK
               /\ Cardinality(m) >= 2 => (last.err = "EIO" /\ ~last.changed)
               /\ m = {} => (last.err = "ENOENT" /\ ~last.changed)

\* The full hex ids of the two commits, written out.
FULLHEX_C1 == <<"a","b","c","d","0","1">> \o [i \in 1..32 |-> "7"] \o <<"1","1">>
FULLHEX_C2 == <<"a","b","c","d","0","2">> \o [i \in 1..32 |-> "7"] \o <<"1","2">>

FullHexOf(c) == IF c = OID_C1 THEN FULLHEX_C1 ELSE FULLHEX_C2

RefsOf(parent) == IF parent = INODE_BRANCHES THEN list_branches ELSE list_tags

BlobOfInode(inode) ==
    Object(CHOOSE o \in ObjectIds : inode_from_oid(o) = inode).data

\* C[o .. min(o + l, len(C))], built element by element
Slice(C, o, l) ==
    LET hi == IF o + l < Len(C) THEN o + l ELSE Len(C)
    IN  IF o >= Len(C) THEN <<>> ELSE [i \in 1..(hi - o) |-> C[o + i]]

\* C10: read on a regular-blob inode with contents C, offset o and length l
\* writes exactly C[o .. min(o+l, len(C))] and returns that slice's length; it
\* returns 0 and writes nothing when o >= len(C) (also for an empty blob), and
\* never changes the node cache.
C10_ReadIsProjection ==
    [][ (/\ last'.op = "read"
         /\ last'.inode \in DOMAIN nodes
         /\ nodes[last'.inode].kind.k = "Blob")
        => LET C == BlobOfInode(last'.inode)
           IN  /\ last'.err = OK
               /\ last'.written = Slice(C, last'.offset, last'.size)
               /\ last'.ret = Len(last'.written)
               /\ last'.offset >= Len(C) => (last'.ret = 0 /\ last'.written = <<>>)
               /\ nodes' = nodes ]_vars

\* C10 witness: a read of the three-byte blob at offset 1 asking for more than
\* remains returned the two-byte tail.
C10_Witness ==
    /\ last.op = "read" /\ last.err = OK
    /\ last.inode = inode_from_oid(OID_B1)
    /\ last.offset = 1 /\ last.size = 4
    /\ last.ret = 2 /\ last.written = <<"i", "\n">>

\* C11: read on an inode materialized from a symlink-mode tree entry succeeds
\* and returns the requested slice of the blob's content (the link target),
\* exactly as for a regular file.
C11_ReadSymlinkBlob ==
    (/\ last.op = "read"
     /\ last.inode \in DOMAIN nodes
     /\ nodes[last.inode].kind.k = "Symlink")
        => /\ last.err = OK
           /\ last.written = Slice(BlobOfInode(last.inode), last.offset, last.size)
           /\ last.ret = Len(last.written)

\* The commit a ref symlink's inode stands for.
CommitOfRefInode(inode) ==
    LET b == {i \in 1..Len(list_branches) :
                synthetic_inode(NAMESPACE_BRANCH, list_branches[i][1]) = inode}
        t == {i \in 1..Len(list_tags) :
                synthetic_inode(NAMESPACE_TAG, list_tags[i][1]) = inode}
    IN  IF b # {} THEN list_branches[CHOOSE i \in b : TRUE][2]
        ELSE list_tags[CHOOSE i \in t : TRUE][2]

CommitsPath(c) == <<".",".","/","c","o","m","m","i","t","s","/">> \o FullHexOf(c)

\* C12: readlink returns the blob content for a Git symlink-blob inode and
\* "../commits/<full-hex>" for HEAD and for ref symlinks; on every other inode
\* (the reserved directories, commit, tree, blob and submodule nodes, inodes
\* never materialized) it fails with EINVAL.
C12_ReadlinkOutcomes ==
    (last.op = "readlink")
        => IF last.inode = INODE_HEAD
           THEN head # Unborn => (last.err = OK /\ last.target = CommitsPath(head))
           ELSE IF last.inode \in DOMAIN nodes /\ nodes[last.inode].kind.k = "Symlink"
           THEN last.err = OK /\ last.target = BlobOfInode(last.inode)
           ELSE IF last.inode \in DOMAIN nodes
                   /\ nodes[last.inode].kind.k = "SyntheticSymlink"
           THEN last.err = OK /\ last.target = CommitsPath(CommitOfRefInode(last.inode))
           ELSE last.err = "EINVAL"

\* C13: getattr on a non-reserved inode is answered from the inode alone: it
\* succeeds for every inode the codec assigns to an existing Git object,
\* whether or not the inode was materialized by an earlier lookup.
C13_GetattrWithoutLookup ==
    (/\ last.op = "getattr"
     /\ \E o \in ObjectIds : last.inode = inode_from_oid(o))
        => last.err = OK

\* C14: open fails with EROFS for every inode when the access mode in the flags
\* is not read-only; with a read-only access mode it succeeds for the five
\* reserved inodes and for every inode of a known Git object, and fails with
\* EBADF for a non-reserved inode that corresponds to no known Git object.
C14_OpenOutcomes ==
    (last.op = "open")
        => IF BitAnd(last.flags, O_ACCMODE) # O_RDONLY THEN last.err = "EROFS"
           ELSE IF last.inode \in ReservedInodes
                   \/ \E o \in ObjectIds : last.inode = inode_from_oid(o)
                THEN last.err = OK
                ELSE last.err = "EBADF"

\* C15: access fails with EROFS for every inode when the mask includes W_OK and
\* succeeds for every inode and every mask without W_OK; it never changes the
\* node cache or HEAD.
C15_AccessOutcomes ==
    [][ (last'.op = "access")
            => /\ last'.err = IF (last'.mask \div 2) % 2 = 1 THEN "EROFS" ELSE OK
               /\ nodes' = nodes
               /\ head' = head ]_vars

\* C15 witness: a request for read and write permission on a materialized blob
\* inode was refused with EROFS.
C15_Witness ==
    /\ last.op = "access"
    /\ last.mask = 6
    /\ last.err = "EROFS"
    /\ last.inode = inode_from_oid(OID_B1)
    /\ last.inode \in DOMAIN nodes

\* C16: timestamps of a Git-backed node reached through commit c's tree are
\* c's committer time, whichever commit was traversed first: a lookup of an
\* entry directly under commit c's directory reports c's committer time, also
\* for an object that another commit's tree shares.
C16_TimesOfGoverningCommit ==
    (/\ last.op = "lookup"
     /\ last.err = OK
     /\ last.parent \in DOMAIN nodes
     /\ nodes[last.parent].kind.k = "Commit")
        => LET c == Object(nodes[last.parent].kind.meta.id)
           IN  /\ last.entry.attr.st_mtime = c.committer_seconds
               /\ last.entry.attr.st_atime = c.committer_seconds
               /\ last.entry.attr.st_ctime = c.committer_seconds

\* The inode and the attribute record a successful lookup or getattr returned.
ReturnedInode == IF last.op = "lookup" THEN last.entry.inode ELSE last.inode
ReturnedAttr  == IF last.op = "lookup" THEN last.entry.attr ELSE last.attr

AttrReturned == last.op \in {"lookup", "getattr"} /\ last.err = OK

\* C17: every synthetic node reports the mount-start time: the root, commits/,
\* branches/, tags/, HEAD (by lookup and by getattr on inode 5) and the
\* per-ref symlinks.
C17_SyntheticNodesMountTime ==
    (/\ AttrReturned
     /\ \/ ReturnedInode \in ReservedInodes
        \/ /\ ReturnedInode \in DOMAIN nodes
           /\ nodes[ReturnedInode].kind.k = "SyntheticSymlink")
        => /\ ReturnedAttr.st_atime = start_time.secs
           /\ ReturnedAttr.st_mtime = start_time.secs
           /\ ReturnedAttr.st_ctime = start_time.secs
           /\ ReturnedAttr.st_mtime_nsec = start_time.nanos

\* What the returned inode is: a reserved inode or the kind of its cached node.
ReturnedKind ==
    IF ReturnedInode \in {ROOT_ID, INODE_COMMITS, INODE_BRANCHES, INODE_TAGS} THEN "Dir"
    ELSE IF ReturnedInode = INODE_HEAD THEN "Head"
    ELSE nodes[ReturnedInode].kind.k

\* C18: every attribute record returned by lookup or getattr has uid = gid = 0,
\* block size 4096 and atime = mtime = ctime; a directory (reserved directory,
\* commit, tree, submodule) has mode dir|0755, nlink 2 and size 0; a blob has
\* mode regular|0444 (0555 if executable), nlink 1 and the blob's length as
\* size; a symlink (HEAD, ref symlink, symlink blob) has mode link|0777,
\* nlink 1 and the byte length of its target as size.
C18_AttrRecordShape ==
    AttrReturned
        => LET a == ReturnedAttr
               k == ReturnedKind
           IN  /\ a.st_uid = 0 /\ a.st_gid = 0 /\ a.st_blksize = 4096
               /\ a.st_atime = a.st_mtime /\ a.st_mtime = a.st_ctime
               /\ a.st_atime_nsec = a.st_mtime_nsec /\ a.st_mtime_nsec = a.st_ctime_nsec
               /\ CASE k \in {"Dir", "Commit", "Tree", "Submodule"} ->
                        a.st_mode = 16384 + 493 /\ a.st_nlink = 2 /\ a.st_size = 0
                    [] k = "Blob" ->
                        /\ a.st_mode = 32768 + (IF nodes[ReturnedInode].kind.executable
                                                THEN 365 ELSE 292)
                        /\ a.st_nlink = 1
                        /\ a.st_size = Len(BlobOfInode(ReturnedInode))
                    [] k = "Symlink" ->
                        /\ a.st_mode = 40960 + 511 /\ a.st_nlink = 1
                        /\ a.st_size = Len(BlobOfInode(ReturnedInode))
                    [] k = "SyntheticSymlink" ->
                        /\ a.st_mode = 40960 + 511 /\ a.st_nlink = 1
                        /\ a.st_size = Len(CommitsPath(CommitOfRefInode(ReturnedInode)))
                    [] k = "Head" ->
                        /\ a.st_mode = 40960 + 511 /\ a.st_nlink = 1
                        /\ a.st_size = Len(CommitsPath(head))

\* C18 witness: a lookup returned the record of an executable, non-empty blob.
C18_Witness ==
    /\ AttrReturned
    /\ last.op = "lookup"
    /\ last.name = <<"x">>
    /\ ReturnedKind = "Blob"
    /\ nodes[ReturnedInode].kind.executable
    /\ ReturnedAttr.st_size = 3

\* (name, inode, type) of the entries of a listing
NameInoType(entries) ==
    [i \in 1..Len(entries) |-> <<entries[i].name, entries[i].ino, entries[i].type_>>]

\* C19: readdir of the root from offset 0 with an unbounded buffer yields
\* exactly ".", ".." (both inode 1, directory), then commits (directory,
\* inode 2), branches (directory, inode 3), tags (directory, inode 4) and HEAD
\* (symlink, inode 5), in that order, whatever the repository holds (HEAD may
\* be unborn) and whatever was requested before.
C19_RootListing ==
    (/\ last.op = "readdir"
     /\ last.inode = U64(1)
     /\ last.offset = 0
     /\ last.buf = Unlimited)
        => /\ last.err = OK
           /\ last.passed = last.accepted
           /\ NameInoType(last.accepted) =
                << << <<".">>, U64(1), "DT_DIR" >>,
                   << <<".", ".">>, U64(1), "DT_DIR" >>,
                   << <<"c","o","m","m","i","t","s">>, U64(2), "DT_DIR" >>,
                   << <<"b","r","a","n","c","h","e","s">>, U64(3), "DT_DIR" >>,
                   << <<"t","a","g","s">>, U64(4), "DT_DIR" >>,
                   << <<"H","E","A","D">>, U64(5), "DT_LNK" >> >>

\* C19 witness: the root was listed in full while HEAD was unborn and the
\* cache already held nodes.
C19_Witness ==
    /\ last.op = "readdir"
    /\ last.inode = ROOT_ID
    /\ last.offset = 0
    /\ last.buf = Unlimited
    /\ last.err = OK
    /\ Len(last.accepted) = 6
    /\ head = Unborn
    /\ Cardinality(DOMAIN nodes) >= 2

\* The value of the bytes that occur in reference names.
ByteValue(c) ==
    CASE c = "1" -> 49 [] c = "D" -> 68 [] c = "a" -> 97 [] c = "b" -> 98
      [] c = "d" -> 100 [] c = "e" -> 101 [] c = "i" -> 105 [] c = "m" -> 109
      [] c = "n" -> 110 [] c = "v" -> 118
      [] c = "\\xbd" -> 189 [] c = "\\xbf" -> 191 [] c = "\\xef" -> 239
      [] c = "\\xff" -> 255

\* a <= b in the lexicographic order of byte strings
BytesLessEq(a, b) ==
    \/ IsPrefix(a, b)
    \/ \E k \in 1..Len(a) :
          /\ k <= Len(b)
          /\ \A i \in 1..(k - 1) : a[i] = b[i]
          /\ ByteValue(a[k]) < ByteValue(b[k])

\* The entries of a listing after "." and "..".
AfterDots(entries) == SubSeq(entries, 3, Len(entries))

\* C20: readdir of branches/ and of tags/ emits, after "." and "..", one
\* symlink entry per ref of that namespace, in strictly ascending
\* lexicographic order of short name, for every set of refs.
C20_RefsListedInOrder ==
    (/\ last.op = "readdir_refs"
     /\ last.offset = 0
     /\ last.buf = Unlimited)
        => LET es == AfterDots(last.accepted)
           IN  /\ last.err = OK
               /\ Len(es) = Len(last.store)
               /\ \A i \in 1..Len(es) : es[i].type_ = "DT_LNK"
               /\ \A i \in 1..(Len(es) - 1) :
                     /\ es[i].name # es[i + 1].name
                     /\ BytesLessEq(es[i].name, es[i + 1].name)

\* The last request was a lookup of a gitlink (submodule) entry of the
\* parent's tree.
GitlinkLookup ==
    /\ last.op = "lookup"
    /\ last.parent \in DOMAIN nodes
    /\ nodes[last.parent].kind.k \in {"Commit", "Tree"}
    /\ LET entries == Object(TreeOfNode(nodes[last.parent])).entries
           at == FindEntry(entries, last.name)
       IN  at # 0 /\ entries[at].mode = EK_Commit

\* C21: a submodule (gitlink) tree entry behaves as an empty directory: lookup
\* of it yields a directory entry with mode 0755, and on the inode it returned
\* readdir emits only "." and ".." and succeeds, lookup of any name fails and
\* read fails.
C21_SubmoduleIsEmptyDirectory ==
    GitlinkLookup
        => /\ last.err = OK
           /\ last.entry.attr.st_mode = 16384 + 493
           /\ LET listing == readdir(nodes, last.entry.inode, 0, Unlimited)
              IN  /\ listing.err = OK
                  /\ [i \in 1..Len(listing.passed) |-> listing.passed[i].name]
                        = << <<".">>, <<".", ".">> >>
           /\ \A n \in NamesUnderNodes :
                 lookup(nodes, head, last.entry.inode, n).err # OK
           /\ read(nodes, last.entry.inode, 1, 0).err # OK


\* The top four bits and the low 60 bits of a u64.
TopFour(ino) == ino[1] \div 16

Low60(ino) == <<ino[1] % 16>> \o SubSeq(ino, 2, 8)

\* C22: for every object id and kind the inode is the leading eight bytes of
\* the object id read big-endian, with the top four bits cleared and the
\* four-bit kind tag in the top four bits.
C22_LeadingEightBytes ==
    last.op = "ino_for"
        => /\ Low60(last.ino) = Low60(SubSeq(last.oid, 1, 8))
           /\ TopFour(last.ino) = tag(last.kind) % 16

\* C23: no inode of the codec for any (object id, kind) and no synthetic inode
\* of any branch or tag name is one of the reserved inodes 1, 2, 3, 4, 5.
C23_ReservedNeverProduced ==
    last.op \in {"ino_for", "synthetic_inode"}
        => last.ino \notin {U64(1), U64(2), U64(3), U64(4), U64(5)}

\* The part of C23 about synthetic_inode alone.
C23_SyntheticNotReserved ==
    last.op = "synthetic_inode"
        => last.ino \notin {U64(1), U64(2), U64(3), U64(4), U64(5)}

GitKinds == {IT_Blob, IT_Tree, IT_Commit, IT_Symlink}

\* C24: for every object id the inode for blob has top four bits 0, for tree 1,
\* for commit 2, for symlink 3; the same object id under two different kinds
\* among these gets two different inodes with identical low 60 bits.
C24_KindInTopFourBits ==
    (last.op = "ino_for" /\ last.kind \in GitKinds)
        => /\ TopFour(last.ino) =
                (CASE last.kind = IT_Blob -> 0 [] last.kind = IT_Tree -> 1
                   [] last.kind = IT_Commit -> 2 [] last.kind = IT_Symlink -> 3)
           /\ \A other \in GitKinds \ {last.kind} :
                /\ ino_for(last.oid, other) # last.ino
                /\ Low60(ino_for(last.oid, other)) = Low60(last.ino)

\* An id whose eight trailing bytes have a non-zero top nibble, encoded as a
\* symlink.
C24_Witness ==
    /\ last.op = "ino_for"
    /\ last.kind = IT_Symlink
    /\ last.oid = OID_XN
    /\ last.ino = <<48, 0, 0, 0, 0, 0, 0, 205>>

\* How often a pair stands on a collision list.
Occurrences(list, x) == Cardinality({i \in 1..Len(list) : list[i] = x})

\* The slot a register call addresses holds another pair / the same pair.
\* Both read the table before the call and the call just made.
RegisteredMismatch ==
    /\ last'.op = "register"
    /\ ino_for(last'.oid, last'.kind) \in DOMAIN inner
    /\ LET slot == inner[ino_for(last'.oid, last'.kind)]
       IN  slot.oid # last'.oid \/ slot.kind # last'.kind

RegisteredSame ==
    /\ last'.op = "register"
    /\ ino_for(last'.oid, last'.kind) \in DOMAIN inner
    /\ LET slot == inner[ino_for(last'.oid, last'.kind)]
       IN  slot.oid = last'.oid /\ slot.kind = last'.kind

\* C25: register of a pair whose slot holds a different pair returns a
\* Collision error naming the inode, the existing pair and the attempted pair,
\* leaves the stored pair of the slot unchanged, and leaves the attempted pair
\* on the collision list of the slot exactly once, however often the same
\* registration is repeated.
C25_MismatchRecordedOnce ==
    [][RegisteredMismatch
        => LET ino == ino_for(last'.oid, last'.kind)
           IN  /\ last'.err = "Collision"
               /\ last'.ino = ino
               /\ last'.existing_oid = inner[ino].oid
               /\ last'.existing_kind = inner[ino].kind
               /\ last'.attempted_oid = last'.oid
               /\ last'.attempted_kind = last'.kind
               /\ DOMAIN inner' = DOMAIN inner
               /\ inner'[ino].oid = inner[ino].oid
               /\ inner'[ino].kind = inner[ino].kind
               /\ Occurrences(inner'[ino].collisions,
                              CollisionRecord(last'.oid, last'.kind)) = 1]_vars

\* A collision reported for the pair standing first on a list of two: the
\* pair was recorded, another pair after it, and now it was attempted again.
C25_Witness ==
    /\ last.op = "register"
    /\ last.err = "Collision"
    /\ Len(inner[last.ino].collisions) = 2
    /\ inner[last.ino].collisions[1] = CollisionRecord(last.oid, last.kind)

\* C26: registering the pair a slot already stores returns Ok with the inode
\* of the slot and leaves the whole table unchanged, collision lists included,
\* also when the slot has recorded collisions.
C26_SamePairIdempotent ==
    [][RegisteredSame
        => /\ last'.err = OK
           /\ last'.ino = ino_for(last'.oid, last'.kind)
           /\ inner' = inner]_vars

\* Ok for a slot that has collisions: a fresh slot has none, so the pair was
\* stored before.
C26_Witness ==
    /\ last.op = "register"
    /\ last.err = OK
    /\ inner[last.ino].oid = last.oid
    /\ inner[last.ino].kind = last.kind
    /\ inner[last.ino].collisions # <<>>

\* C27: under register, snapshot and restore every inode present keeps the
\* first pair recorded for it: no step replaces the stored pair of a slot or
\* drops a collision recorded for it.
C27_FirstPairAndCollisionsKept ==
    [][\A ino \in DOMAIN inner :
          /\ ino \in DOMAIN inner'
          /\ inner'[ino].oid = inner[ino].oid
          /\ inner'[ino].kind = inner[ino].kind
          /\ IsPrefix(inner[ino].collisions, inner'[ino].collisions)]_vars

\* The part of C27 about the stored pair, with the snapshots of this table.
C27_FirstPairKept ==
    [][\A ino \in DOMAIN inner :
          /\ ino \in DOMAIN inner'
          /\ inner'[ino].oid = inner[ino].oid
          /\ inner'[ino].kind = inner[ino].kind]_vars

\* The Git kind under which a cached node and a tree entry hold their object.
KindOfNode(node) ==
    CASE node.kind.k = "Commit" -> IT_Commit
      [] node.kind.k = "Tree" -> IT_Tree
      [] node.kind.k = "Blob" -> IT_Blob
      [] node.kind.k = "Symlink" -> IT_Symlink
      [] node.kind.k = "Submodule" -> IT_Commit
      [] OTHER -> IT_Synthetic(127)

KindOfMode(mode) ==
    CASE mode = EK_Tree -> IT_Tree
      [] mode \in {EK_Blob, EK_BlobExecutable} -> IT_Blob
      [] mode = EK_Link -> IT_Symlink
      [] mode = EK_Commit -> IT_Commit

\* The lookup just answered resolved a tree entry whose inode the cache held,
\* before the lookup, for an object of another kind.
ResolvedToInodeOfOtherObject ==
    /\ last'.op = "lookup"
    /\ last'.parent \in DOMAIN nodes
    /\ nodes[last'.parent].kind.k \in {"Commit", "Tree"}
    /\ LET entries == Object(TreeOfNode(nodes[last'.parent])).entries
           at == FindEntry(entries, last'.name)
       IN  /\ at # 0
           /\ inode_from_oid(entries[at].oid) \in DOMAIN nodes
           /\ KindOfNode(nodes[inode_from_oid(entries[at].oid)])
                  # KindOfMode(entries[at].mode)

\* C28: a lookup that resolves a tree entry whose inode is already held by a
\* different Git object fails with EIO and does not return the entry of the
\* other object.
C28_CollidingLookupFailsEIO ==
    [][ResolvedToInodeOfOtherObject => last'.err = "EIO"]_vars

\* The non-reserved inodes the request just answered handed to its caller.
HandedOut(reply) ==
    (IF reply.op = "lookup" /\ reply.err = OK THEN {reply.entry.inode} ELSE {})
    \cup (IF reply.op = "readdir"
          THEN {reply.passed[i].ino : i \in 1..Len(reply.passed)} ELSE {})

\* C29: the node cache only grows; every non-reserved inode a successful
\* lookup returns or readdir passes to add_entry is in the cache when the
\* request returns; getattr, open and readdir on an inode of the cache do not
\* fail with ENOENT.
C29_CacheOnlyGrows ==
    [][/\ \A inode \in DOMAIN nodes : inode \in DOMAIN nodes'
       /\ \A inode \in HandedOut(last') \ ReservedInodes : inode \in DOMAIN nodes'
       /\ (last'.op \in {"getattr", "open", "readdir"} /\ last'.inode \in DOMAIN nodes)
              => last'.err # "ENOENT"]_vars

\* A listing of the tree of a commit that handed out the inodes of all six
\* entries.
C29_Witness ==
    /\ last.op = "readdir"
    /\ last.err = OK
    /\ last.inode = inode_from_oid(OID_C1)
    /\ Len(last.passed) = 8
    /\ \A i \in 3..8 : last.passed[i].ino \in DOMAIN nodes \ ReservedInodes

\* Two lookups have finished with success on the same child inode.
BothResolved(t1, t2) ==
    /\ t1 # t2
    /\ thr[t1].pc = "done" /\ thr[t2].pc = "done"
    /\ thr[t1].err = OK /\ thr[t2].err = OK
    /\ thr[t1].node.inode = thr[t2].node.inode

\* C30: when concurrent lookups resolve to the same tree-child inode, the
\* cache entry of that inode is written at most once, and the attributes and
\* the parent each lookup returned are the ones getattr and readdir on that
\* inode show after both have finished, whatever the order of the checks and
\* the inserts.
C30_ConcurrentLookupsWriteOnce ==
    \A t1, t2 \in Threads :
        BothResolved(t1, t2)
            => /\ ~(thr[t1].wrote /\ thr[t2].wrote)
               /\ getattr(nodes, head, thr[t1].node.inode).attr = thr[t1].attr
               /\ readdir(nodes, thr[t1].node.inode, 1, Unlimited).passed[1].ino
                      = thr[t1].node.parent


\* C33: readdir on an inode whose node is not a directory (a blob, a symlink
\* blob, a branch or tag symlink) fails with ENOTDIR at every offset and
\* passes no entry, not even '.' or '..', to add_entry.
C33_ReaddirOfNonDirectory ==
    (/\ last.op = "readdir"
     /\ last.inode \in DOMAIN nodes
     /\ nodes[last.inode].kind.k \in {"Blob", "Symlink", "SyntheticSymlink"})
        => /\ last.err = "ENOTDIR"
           /\ last.passed = <<>>

\* The part of C33 that the code keeps: on a blob or a symlink blob, at an
\* offset past '.' and '..', readdir fails with ENOTDIR and passes nothing.
C33_PastTheDots ==
    (/\ last.op = "readdir"
     /\ last.offset >= 2
     /\ last.inode \in DOMAIN nodes
     /\ nodes[last.inode].kind.k \in {"Blob", "Symlink"})
        => /\ last.err = "ENOTDIR"
           /\ last.passed = <<>>

\* The refs of the repository at the moment: directory, namespace, name and
\* the commit the ref points to.
RefsNow ==
    UNION {{[dir |-> d.dir, namespace |-> d.namespace,
             name |-> from_utf8_lossy(repo[d.field][i][2]),
             commit |-> repo[d.field][i][3]] : i \in 1..Len(repo[d.field])} : d \in RefDirs}

\* The request just answered observed the ref: a successful lookup of its
\* name, or a readdir of its directory that passed its entry to add_entry.
Observed(reply, r) ==
    \/ /\ reply.op = "lookup"
       /\ reply.parent = r.dir /\ reply.name = r.name /\ reply.err = OK
    \/ /\ reply.op = "readdir"
       /\ reply.inode = r.dir
       /\ \E k \in 1..Len(reply.passed) :
             reply.passed[k].ino = synthetic_inode(r.namespace, r.name)

\* The reading of "lookup of that name or readdir of its namespace directory"
\* that takes every successful readdir of the directory, whatever its offset
\* and its buffer.
ObservedByAnyListing(reply, r) ==
    \/ /\ reply.op = "lookup"
       /\ reply.parent = r.dir /\ reply.name = r.name /\ reply.err = OK
    \/ /\ reply.op = "readdir"
       /\ reply.inode = r.dir /\ reply.err = OK

\* One step under the rule of C34, for a given notion of observing a ref: a
\* request that observes the ref records '../commits/<hex>' of the commit the
\* ref points to at that moment, no other step (a move of the ref among them)
\* changes what is recorded, and readlink returns what is recorded.  readlink
\* on HEAD returns '../commits/<hex>' of the commit HEAD is at when asked.
ReadlinkFollowsRecord(Obs(_, _)) ==
    /\ \A r \in RefsNow :
          LET inode == synthetic_inode(r.namespace, r.name)
          IN  /\ Obs(last', r)
                   => /\ inode \in DOMAIN nodes'
                      /\ nodes'[inode].kind.k = "SyntheticSymlink"
                      /\ nodes'[inode].kind.target = CommitsPath(r.commit)
              /\ ~Obs(last', r)
                   => /\ inode \in DOMAIN nodes' <=> inode \in DOMAIN nodes
                      /\ inode \in DOMAIN nodes => nodes'[inode] = nodes[inode]
              /\ (last'.op = "readlink" /\ last'.inode = inode /\ inode \in DOMAIN nodes)
                   => /\ last'.err = OK
                      /\ last'.target = nodes[inode].kind.target
    /\ (last'.op = "readlink" /\ last'.inode = INODE_HEAD /\ head # Unborn)
          => /\ last'.err = OK
             /\ last'.target = CommitsPath(head)

\* C34 as stated: readlink on the inode of a branch or tag symlink returns the
\* target recorded by the most recent lookup of the name or readdir of the
\* namespace directory; moving the ref alone does not change the answer, and
\* after the next lookup of the name or readdir of its directory readlink
\* returns '../commits/<hex>' of the commit the ref then points to; readlink
\* on HEAD always reflects the HEAD commit at the time of the call.
C34_AsStated == [][ReadlinkFollowsRecord(ObservedByAnyListing)]_vars

\* C34 amended: the same, where the readdir that records the target of a ref
\* is one that passes the entry of that ref to add_entry.
C34_ReadlinkOfRefsAndHead == [][ReadlinkFollowsRecord(Observed)]_vars

\* readlink on the symlink of a ref answered with the commit the ref has
\* left: the ref is at C2, the answer names C1.
C34_Witness ==
    /\ last.op = "readlink"
    /\ last.err = OK
    /\ \E r \in RefsNow :
          /\ last.inode = synthetic_inode(r.namespace, r.name)
          /\ r.commit = OID_C2
          /\ last.target = CommitsPath(OID_C1)


\* Two register calls have returned that were made with different pairs of
\* one inode, the first of them to run having found the slot vacant.
BothRegistered(t1, t2) ==
    /\ t1 # t2
    /\ thr[t1].pc = "done" /\ thr[t2].pc = "done"
    /\ "vacant" \in DOMAIN thr[t1] /\ "vacant" \in DOMAIN thr[t2]
    /\ thr[t1].oid # thr[t2].oid \/ thr[t1].kind # thr[t2].kind
    /\ thr[t1].ino = thr[t2].ino
    /\ thr[t1].vacant

\* C32: when two threads register two different pairs of the same inode in an
\* empty slot, exactly one call returns Ok and the other a Collision error,
\* the slot stores the pair of the call that returned Ok, and the collision
\* list holds exactly the other pair, in every interleaving.
C32_ConcurrentRegister ==
    \A t1, t2 \in Threads :
        BothRegistered(t1, t2)
            => /\ thr[t1].err = OK
               /\ thr[t2].err = "Collision"
               /\ inner[thr[t1].ino].oid = thr[t1].oid
               /\ inner[thr[t1].ino].kind = thr[t1].kind
               /\ inner[thr[t1].ino].collisions
                      = <<CollisionRecord(thr[t2].oid, thr[t2].kind)>>

\* Thread 2 ran first and took the slot with another oid under the same kind;
\* thread 1 got the collision.
C32_Witness ==
    /\ BothRegistered(2, 1)
    /\ thr[1].kind = thr[2].kind
    /\ thr[1].err = "Collision"
    /\ inner[thr[1].ino].oid = thr[2].oid

\* No thread asks for the write lock, or holds it, while it holds a read
\* guard; a thread holding the write guard is at its one insert or past it.
LockDiscipline ==
    \A t \in Threads :
        /\ HoldsRead(t) => ~HoldsWrite(t) /\ At(t) # "write"
        /\ HoldsWrite(t)
             => \/ At(t) = "insert" /\ thr[t].prog[thr[t].pc + 1] = "unwrite"
                \/ At(t) = "unwrite" /\ thr[t].prog[thr[t].pc - 1] = "insert"

\* C31: no request takes the write lock of the node cache while it holds the
\* read lock, a writer holds the lock for a single insert, and with requests
\* running concurrently every request completes.
C31_NoDeadlockOnNodeCache ==
    /\ []LockDiscipline
    /\ \A t \in Threads : <>(At(t) = "done")

\* Contention: one thread holds a read guard, the other has queued for the
\* write lock and waits.
C31_Witness ==
    \E t, u \in Threads :
        /\ HoldsRead(t)
        /\ At(u) = "write" /\ thr[u].queued
=============================================================================
